---- MODULE Spec2Model ----
(***************************************************************************)
(* Import/export validation engine: header reconciliation                  *)
(* (validateHeaders), schema drift resolution (validateSchema,             *)
(* removeColumns) and row/cell validation (validateData with validateType, *)
(* validateFormat and validateRule).                                       *)
(*                                                                         *)
(* JavaScript values are records [t, v]: t is the runtime tag and v the    *)
(* payload.  A string is a tuple of one-character strings, so length,      *)
(* parsing and pattern matching are computed and not looked up.  A number  *)
(* is kept in tenths (v = 155 is 15.5), which gives one decimal digit.     *)
(* Column names, object keys and rule messages are only ever compared, and *)
(* are kept as atomic strings.                                             *)
(***************************************************************************)
EXTENDS Integers, Sequences, FiniteSets, TLC

VARIABLES
    fileHeaders,             \* string[] handed to validateHeaders
    data,                    \* any[]: the row objects handed to the engine
    config,                  \* ImporterConfig
    columnsToRemove,         \* string[] handed to removeColumns
    headerValidationResult,  \* HeaderValidationResult | null
    schemaValidationResult,  \* SchemaValidationResult | null
    updatedData,             \* result of removeColumns | null
    validationResult,        \* ValidationResult | null, or the thrown marker
    legacyValidationResult,  \* result of the first-generation validateData
    lenientDateParse,        \* whether the engine's Date.parse has a fallback
    handledValue,            \* what handleInvalidData returned, or pending
    \* The import workflow (ExcelImportExport); its data, importerConfig and
    \* three results are the variables data, config and ...Result above
    strictSchema,            \* the strictSchema prop
    originalData,            \* the rows of the last upload
    processedData,           \* the rows that passed schema drift resolution
    previewData,             \* the rows shown on the preview tab
    validationErrors,        \* ValidationError[]
    showSchemaValidation,    \* the four panels that replace the tabs
    showHeaderValidation,
    showAdvancedConfig,
    showValidationResults,
    activeTab,               \* "upload" | "preview" | "data"
    isLoading,               \* an import is running
    error,                   \* the error banner, or null
    timers,                  \* the rows each running import timer will store
    handler,                 \* history: the handler that ran last
    computed,                \* history: the engine calls it made, in order
    gates,                   \* history: the gates run since the last upload
    \* The failed-submission store and its dialog
    submissions,             \* FailedSubmission[] of the store
    selectedSubmission,      \* the store's selectedSubmission
    dialogSelection,         \* the dialog's own selectedSubmission
    showEditDialog,          \* the Edit & Retry dialog is open
    retrying,                \* the submission a running retry sends, or null
    submitting,              \* what the submission dialog is sending, or null
    submitResult,            \* submitResult of the submission dialog
    returned,                \* history: the last call of submitDataToApi
    nextId                   \* history: the submissions added so far

workflowVars ==
    <<strictSchema, originalData, processedData, previewData, validationErrors,
      showSchemaValidation, showHeaderValidation, showAdvancedConfig,
      showValidationResults, activeTab, isLoading, error, timers, handler,
      computed, gates>>

storeVars ==
    <<submissions, selectedSubmission, dialogSelection, showEditDialog, retrying,
      submitting, submitResult, returned, nextId>>

engineVars ==
    <<fileHeaders, data, config, columnsToRemove, headerValidationResult,
      schemaValidationResult, updatedData, validationResult,
      legacyValidationResult, lenientDateParse, handledValue>>

vars == <<engineVars, workflowVars, storeVars>>

-----------------------------------------------------------------------------
(* Bounds of the model *)

MaxHeaders == 3
MaxColumns == 2
MaxRows == 2
MaxRules == 2
MaxSubmissions == 2
MaxRetries == 2

-----------------------------------------------------------------------------
(* JavaScript values *)

Undefined == [t |-> "undefined", v |-> 0]
JsNull == [t |-> "null", v |-> 0]
Str(s) == [t |-> "string", v |-> s]
Num(tenths) == [t |-> "number", v |-> tenths]
Int10(n) == Num(n * 10)
Bool(b) == [t |-> "boolean", v |-> b]
DateObj(day) == [t |-> "date", v |-> day]
Arr(seq) == [t |-> "array", v |-> seq]

\* typeof value
typeof(value) ==
    CASE value.t = "undefined" -> "undefined"
      [] value.t = "null" -> "object"
      [] value.t = "date" -> "object"
      [] OTHER -> value.t

\* value === undefined || value === null || value === ""
IsEmptyValue(value) ==
    \/ value.t = "undefined"
    \/ value.t = "null"
    \/ (value.t = "string" /\ value.v = <<>>)

\* A row object is a function from its own keys to values; row[name] of a
\* key the object does not have is undefined.
Get(row, name) == IF name \in DOMAIN row THEN row[name] ELSE Undefined

\* The column order of the sheet: Object.keys lists a row's keys in it.
KeyOrder == <<"name", "email", "age", "extra1", "extra2">>

RECURSIVE SelectKeys(_, _)
SelectKeys(order, keys) ==
    IF order = <<>> THEN <<>>
    ELSE (IF Head(order) \in keys THEN <<Head(order)>> ELSE <<>>)
         \o SelectKeys(Tail(order), keys)

\* Object.keys(row)
ObjectKeys(row) == SelectKeys(KeyOrder, DOMAIN row)

\* array.includes(x)
Includes(seq, x) == \E i \in 1..Len(seq) : seq[i] = x

Range(seq) == {seq[i] : i \in 1..Len(seq)}

\* A generated message: the template text and the values interpolated in it
Msg(text, values) == [text |-> text, values |-> values]

-----------------------------------------------------------------------------
(* Strings and numbers, computed on the characters *)

Digits == <<"0", "1", "2", "3", "4", "5", "6", "7", "8", "9">>
IsDigit(c) == \E i \in 1..10 : Digits[i] = c
DigitVal(c) == (CHOOSE i \in 1..10 : Digits[i] = c) - 1
IsSpace(c) == c = " "

\* A numeric result: nan, or the number n in tenths
NaN == [nan |-> TRUE, n |-> 0]
Fin(n) == [nan |-> FALSE, n |-> n]

\* <, >, with a NaN operand every comparison is false
Lt(a, b) == ~a.nan /\ ~b.nan /\ a.n < b.n
Gt(a, b) == ~a.nan /\ ~b.nan /\ a.n > b.n

\* str.substring(from) (from is 0-based), str.substring(0, to)
Drop(s, from) == SubSeq(s, from + 1, Len(s))
Take(s, to) == SubSeq(s, 1, to)

\* The length of the longest prefix of s made of digits
RECURSIVE DigitPrefix(_)
DigitPrefix(s) ==
    IF s = <<>> \/ ~IsDigit(Head(s)) THEN 0 ELSE 1 + DigitPrefix(Tail(s))

\* The natural number the digits of s spell
RECURSIVE DigitsValue(_)
DigitsValue(s) ==
    IF s = <<>> THEN 0
    ELSE DigitsValue(Take(s, Len(s) - 1)) * 10 + DigitVal(s[Len(s)])

RECURSIVE TrimStart(_)
TrimStart(s) == IF s # <<>> /\ IsSpace(Head(s)) THEN TrimStart(Tail(s)) ELSE s

RECURSIVE TrimEnd(_)
TrimEnd(s) ==
    IF s # <<>> /\ IsSpace(s[Len(s)]) THEN TrimEnd(Take(s, Len(s) - 1)) ELSE s

\* str.trim()
Trim(s) == TrimEnd(TrimStart(s))

\* The decimal literal that starts s: its length in characters and its value
\* in tenths (digits after the first decimal are read and dropped).  len = 0
\* when s starts with no literal.
DecimalPrefix(s) ==
    LET signed == s # <<>> /\ Head(s) \in {"-", "+"}
        body == IF signed THEN Tail(s) ELSE s
        sign == IF signed /\ Head(s) = "-" THEN -1 ELSE 1
        nInt == DigitPrefix(body)
        rest == Drop(body, nInt)
        dotted == rest # <<>> /\ Head(rest) = "."
        nFrac == IF dotted THEN DigitPrefix(Tail(rest)) ELSE 0
        tenth == IF nFrac > 0 THEN DigitVal(rest[2]) ELSE 0
        used == nInt + (IF dotted /\ (nInt > 0 \/ nFrac > 0) THEN 1 + nFrac ELSE 0)
    IN IF nInt = 0 /\ nFrac = 0
       THEN [len |-> 0, n |-> 0]
       ELSE [len |-> used + (IF signed THEN 1 ELSE 0),
             n |-> sign * (DigitsValue(Take(body, nInt)) * 10 + tenth)]

\* Number.parseFloat(str): the literal at the start, whatever follows it
parseFloat(s) ==
    LET p == DecimalPrefix(TrimStart(s))
    IN IF p.len = 0 THEN NaN ELSE Fin(p.n)

\* Number.parseInt(str): the integer at the start, whatever follows it
parseInt(s) ==
    LET t == TrimStart(s)
        signed == t # <<>> /\ Head(t) \in {"-", "+"}
        body == IF signed THEN Tail(t) ELSE t
        sign == IF signed /\ Head(t) = "-" THEN -1 ELSE 1
        nInt == DigitPrefix(body)
    IN IF nInt = 0 THEN NaN ELSE Fin(sign * DigitsValue(Take(body, nInt)) * 10)

\* Number(str): the whole trimmed string must be one literal; "" is 0
StringToNumber(s) ==
    LET t == Trim(s)
        p == DecimalPrefix(t)
    IN IF t = <<>> THEN Fin(0)
       ELSE IF p.len = Len(t) THEN Fin(p.n) ELSE NaN

\* The decimal digits of a natural number
RECURSIVE NatToString(_)
NatToString(n) ==
    IF n < 10 THEN <<Digits[n + 1]>>
    ELSE NatToString(n \div 10) \o <<Digits[(n % 10) + 1]>>

\* number.toString() of a number kept in tenths
NumberToString(tenths) ==
    LET a == IF tenths < 0 THEN -tenths ELSE tenths
    IN (IF tenths < 0 THEN <<"-">> ELSE <<>>)
       \o NatToString(a \div 10)
       \o (IF a % 10 = 0 THEN <<>> ELSE <<".", Digits[(a % 10) + 1]>>)

\* str.split(sep) for a one-character separator
RECURSIVE Split(_, _)
Split(s, sep) ==
    IF \E i \in 1..Len(s) : s[i] = sep
    THEN LET i == CHOOSE j \in 1..Len(s) :
                      s[j] = sep /\ \A k \in 1..(j - 1) : s[k] # sep
         IN <<Take(s, i - 1)>> \o Split(Drop(s, i), sep)
    ELSE <<s>>

\* The element at 0-based index i, undefined past the end
At(seq, i) == IF i + 1 <= Len(seq) THEN Str(seq[i + 1]) ELSE Undefined

LowerOf(c) ==
    CASE c = "A" -> "a" [] c = "B" -> "b" [] c = "C" -> "c" [] c = "N" -> "n"
      [] c = "T" -> "t" [] c = "Y" -> "y" [] c = "E" -> "e" [] c = "S" -> "s"
      [] OTHER -> c

\* str.toLowerCase()
toLowerCase(s) == [i \in 1..Len(s) |-> LowerOf(s[i])]

-----------------------------------------------------------------------------
(* Dates *)

\* The day count the model orders dates by
DayOf(y, m, d) == y * 372 + (m - 1) * 31 + (d - 1)

AllDigits(s) == s # <<>> /\ DigitPrefix(s) = Len(s)

\* The date-only forms of the ECMAScript date-time format:
\* YYYY, YYYY-MM and YYYY-MM-DD
IsoDate(s) ==
    LET y == DigitsValue(Take(s, 4))
        m == DigitsValue(SubSeq(s, 6, 7))
        d == DigitsValue(SubSeq(s, 9, 10))
    IN CASE Len(s) = 4 /\ AllDigits(s) -> Fin(DayOf(y, 1, 1))
         [] Len(s) = 7 /\ AllDigits(Take(s, 4)) /\ s[5] = "-"
            /\ AllDigits(SubSeq(s, 6, 7)) ->
                IF m \in 1..12 THEN Fin(DayOf(y, m, 1)) ELSE NaN
         [] Len(s) = 10 /\ AllDigits(Take(s, 4)) /\ s[5] = "-"
            /\ AllDigits(SubSeq(s, 6, 7)) /\ s[8] = "-"
            /\ AllDigits(SubSeq(s, 9, 10)) ->
                IF m \in 1..12 /\ d \in 1..31 THEN Fin(DayOf(y, m, d)) ELSE NaN
         [] OTHER -> NaN

\* What an engine with a lenient fallback makes of a string that is not in
\* the standard format: one or two digits are a month of 2001 (1..12) or a
\* two-digit year (32..49 -> 20xx, 50..99 -> 19xx).
LenientDate(s) ==
    LET n == DigitsValue(s)
    IN IF AllDigits(s) /\ Len(s) <= 2
       THEN CASE n \in 1..12 -> Fin(DayOf(2001, n, 1))
              [] n \in 32..49 -> Fin(DayOf(2000 + n, 1, 1))
              [] n \in 50..99 -> Fin(DayOf(1900 + n, 1, 1))
              [] OTHER -> NaN
       ELSE NaN

\* new Date(str).getTime(): the standard format, then the fallback, which
\* the language leaves to the engine (lenientDateParse)
DateParse(s) ==
    IF ~IsoDate(s).nan THEN IsoDate(s)
    ELSE IF lenientDateParse THEN LenientDate(s) ELSE NaN

\* new Date(value).getTime() for any value; a number is milliseconds from
\* 1970-01-01 and every number of the model is within a day of it
ToDate(value) ==
    CASE value.t = "string" -> DateParse(value.v)
      [] value.t = "date" -> Fin(value.v)
      [] value.t = "number" ->
            Fin(DayOf(1970, 1, 1) - (IF value.v < 0 THEN 1 ELSE 0))
      [] value.t = "boolean" -> Fin(DayOf(1970, 1, 1))
      [] value.t = "null" -> Fin(DayOf(1970, 1, 1))
      [] OTHER -> NaN

-----------------------------------------------------------------------------
(* Regular expressions: the patterns of the model, each matched on the      *)
(* characters                                                               *)

\* "^[^\\s@]+@[^\\s@]+\\.[^\\s@]+$"
EmailPattern ==
    <<"^", "[", "^", "\\", "s", "@", "]", "+", "@",
      "[", "^", "\\", "s", "@", "]", "+", "\\", ".",
      "[", "^", "\\", "s", "@", "]", "+", "$">>

\* "^[\\d\\+\\-$$$$ ]{7,20}$"
PhonePattern ==
    <<"^", "[", "\\", "d", "\\", "+", "\\", "-", "$", "$", "$", "$", " ", "]",
      "{", "7", ",", "2", "0", "}", "$">>

\* "^\\d+$"
DigitsPattern == <<"^", "\\", "d", "+", "$">>

\* "^[a-z]+$"
LowerPattern == <<"^", "[", "a", "-", "z", "]", "+", "$">>

\* "(": an unterminated group, which new RegExp rejects
BrokenPattern == <<"(">>

IsLowerLetter(c) ==
    c \in {"a", "b", "c", "d", "e", "n", "o", "s", "t", "u", "r", "x", "y", "z"}

\* new RegExp(pattern) returns (TRUE) or throws a SyntaxError (FALSE)
RegExpCompiles(pattern) == pattern # BrokenPattern

MatchesEmail(s) ==
    LET ats == {i \in 1..Len(s) : s[i] = "@"}
    IN /\ \A i \in 1..Len(s) : ~IsSpace(s[i])
       /\ Cardinality(ats) = 1
       /\ LET p == CHOOSE i \in ats : TRUE
          IN p >= 2 /\ \E q \in (p + 2)..(Len(s) - 1) : s[q] = "."

MatchesPhone(s) ==
    /\ Len(s) \in 7..20
    /\ \A i \in 1..Len(s) : IsDigit(s[i]) \/ s[i] \in {"+", "-", "$", " "}

\* pattern.test(str) for a pattern that compiles
RegExpTest(pattern, s) ==
    CASE pattern = <<>> -> TRUE
      [] pattern = EmailPattern -> MatchesEmail(s)
      [] pattern = PhonePattern -> MatchesPhone(s)
      [] pattern = DigitsPattern -> AllDigits(s)
      [] pattern = LowerPattern ->
            s # <<>> /\ \A i \in 1..Len(s) : IsLowerLetter(s[i])

-----------------------------------------------------------------------------
(* Configuration *)

\* createDefaultColumnConfig(name), with the required flag of the caller
DefaultColumn(name, required) ==
    [name |-> name, displayName |-> name, required |-> required,
     type |-> "string", validationRules |-> <<>>, format |-> <<>>,
     invalidHandling |-> "flag", defaultValue |-> <<>>]

InvalidColumnHandling == {"ignore", "warn", "reject", "include"}

\* type InvalidDataHandling
InvalidDataHandling == {"flag", "remove", "default", "reject"}

\* defaultDataTypeConfig
defaultDataTypeConfig ==
    [string |-> [minLength |-> 0, maxLength |-> 255, trim |-> TRUE],
     number |-> [min |-> JsNull, max |-> JsNull, precision |-> 2,
                 integerOnly |-> FALSE],
     date |-> [min |-> <<>>, max |-> <<>>,
               format |-> <<"Y", "Y", "Y", "Y", "-", "M", "M", "-", "D", "D">>],
     boolean |-> [trueValues |-> <<<<"t", "r", "u", "e">>, <<"y", "e", "s">>,
                                   <<"1">>, <<"y">>>>,
                  falseValues |-> <<<<"f", "a", "l", "s", "e">>, <<"n", "o">>,
                                    <<"0">>, <<"n">>>>,
                  caseSensitive |-> FALSE],
     email |-> [pattern |-> EmailPattern, allowedDomains |-> <<>>],
     phone |-> [pattern |-> PhonePattern,
                format |-> <<"(", "#", "#", "#", ")", " ", "#", "#", "#", "-",
                             "#", "#", "#", "#">>,
                allowInternational |-> TRUE]]

\* defaultImporterConfig with the columns and the policy of the session
ImporterConfig(columns, handling, typeConfig) ==
    [columns |-> columns, invalidColumnHandling |-> handling,
     dataTypeConfig |-> typeConfig]

-----------------------------------------------------------------------------
(* Header reconciliation *)

\* A header classifier that folds case: the slip the exact match excludes.
HeaderMatchesFolded(a, b) ==
    LET fold(s) == IF s = "Name" THEN "name" ELSE s IN fold(a) = fold(b)

\* column.name === header, and the identity fileHeaders.includes uses
HeaderMatches(a, b) == a = b

validateHeadersGated(headers, cfg) ==
    LET cols == cfg.columns
        has(name) == \E i \in 1..Len(headers) : HeaderMatches(headers[i], name)
        names(seq) == [i \in 1..Len(seq) |-> seq[i].name]
        present == names(SelectSeq(cols, LAMBDA c : has(c.name)))
        missingRequired ==
            names(SelectSeq(cols, LAMBDA c : ~has(c.name) /\ c.required))
        unrecognized ==
            SelectSeq(headers, LAMBDA h :
                ~\E i \in 1..Len(cols) : HeaderMatches(cols[i].name, h))
    IN [valid |-> Len(missingRequired) = 0 /\ Len(unrecognized) = 0,
        expected |-> cols, present |-> present,
        missingRequired |-> missingRequired, unrecognized |-> unrecognized]

validateHeaders(headers, cfg) ==
    LET cols == cfg.columns
        has(name) == \E i \in 1..Len(headers) : HeaderMatches(headers[i], name)
        names(seq) == [i \in 1..Len(seq) |-> seq[i].name]
        present == names(SelectSeq(cols, LAMBDA c : has(c.name)))
        missingRequired ==
            names(SelectSeq(cols, LAMBDA c : ~has(c.name) /\ c.required))
        unrecognized ==
            SelectSeq(headers, LAMBDA h :
                ~\E i \in 1..Len(cols) : HeaderMatches(cols[i].name, h))
    IN [valid |-> Len(missingRequired) = 0,
        expected |-> cols, present |-> present,
        missingRequired |-> missingRequired, unrecognized |-> unrecognized]

-----------------------------------------------------------------------------
(* Schema drift resolution *)

\* The row with the keys in cols deleted
DeleteKeys(row, cols) == [k \in DOMAIN row \ Range(cols) |-> row[k]]

\* Deleting on the row itself, without the copy: the caller's row changes too.
SpreadDeleteInPlace(row, cols) ==
    [row |-> DeleteKeys(row, cols), newRow |-> DeleteKeys(row, cols)]

\* const newRow = { ...row }; cols.forEach((col) => delete newRow[col]):
\* the caller's row as the step leaves it, and the copy it returns
SpreadDelete(row, cols) == [row |-> row, newRow |-> DeleteKeys(row, cols)]

\* The extra columns taken from every row instead of the first one
ExtraColumnsOfAllRows(rows, schemaColumns) ==
    SelectKeys(KeyOrder,
               {k \in UNION {DOMAIN rows[i] : i \in 1..Len(rows)} :
                   ~Includes(schemaColumns, k)})

\* dataColumns = Object.keys(data[0]);
\* extraColumns = dataColumns.filter((col) => !schemaColumns.includes(col))
ExtraColumns(rows, schemaColumns) ==
    SelectSeq(ObjectKeys(rows[1]), LAMBDA col : ~Includes(schemaColumns, col))

\* A valid flag that is true whenever the policy lets the upload through
SchemaValidLenient(extraColumns, handling) ==
    Len(extraColumns) = 0 \/ handling \in {"include", "ignore"}

\* valid = extraColumns.length === 0 || invalidColumnHandling === "include"
SchemaValid(extraColumns, handling) ==
    Len(extraColumns) = 0 \/ handling = "include"

\* A policy switch whose reject branch strips the columns as well
StripsColumnsAlways(handling) == handling \in {"ignore", "warn", "reject"}

\* The cases of the switch that map the rows: "ignore" and "warn"
StripsColumns(handling) == handling \in {"ignore", "warn"}

\* A report that explains the first undeclared column only
SchemaErrorReportFirstOnly(extraColumns) ==
    IF Len(extraColumns) > 0
    THEN [message |-> Msg("Found ${n} column(s) not defined in the schema",
                          <<Int10(Len(extraColumns))>>),
          details |-> <<[column |-> extraColumns[1],
                         message |-> Msg("Column \"${col}\" is not defined in the schema",
                                         <<extraColumns[1]>>)]>>]
    ELSE JsNull

\* errorReport: one detail for each undeclared column, or null
SchemaErrorReport(extraColumns) ==
    IF Len(extraColumns) > 0
    THEN [message |-> Msg("Found ${n} column(s) not defined in the schema",
                          <<Int10(Len(extraColumns))>>),
          details |-> [i \in 1..Len(extraColumns) |->
                          [column |-> extraColumns[i],
                           message |-> Msg("Column \"${col}\" is not defined in the schema",
                                           <<extraColumns[i]>>)]]]
    ELSE JsNull

validateSchema(rows, cfg) ==
    LET schemaColumns == [i \in 1..Len(cfg.columns) |-> cfg.columns[i].name]
    IN IF Len(rows) = 0
       THEN [valid |-> TRUE, extraColumns |-> <<>>, validData |-> rows,
             errorReport |-> JsNull]
       ELSE LET extraColumns == ExtraColumns(rows, schemaColumns)
                strip == Len(extraColumns) > 0
                         /\ StripsColumns(cfg.invalidColumnHandling)
            IN [valid |-> SchemaValid(extraColumns, cfg.invalidColumnHandling),
                extraColumns |-> extraColumns,
                validData |->
                    IF strip
                    THEN [i \in 1..Len(rows) |->
                             SpreadDelete(rows[i], extraColumns).newRow]
                    ELSE rows,
                errorReport |-> SchemaErrorReport(extraColumns)]

\* The caller's array as validateSchema leaves it
validateSchemaInput(rows, cfg) ==
    LET schemaColumns == [i \in 1..Len(cfg.columns) |-> cfg.columns[i].name]
    IN IF Len(rows) = 0 THEN rows
       ELSE LET extraColumns == ExtraColumns(rows, schemaColumns)
            IN IF Len(extraColumns) > 0
                  /\ StripsColumns(cfg.invalidColumnHandling)
               THEN [i \in 1..Len(rows) |->
                        SpreadDelete(rows[i], extraColumns).row]
               ELSE rows

removeColumns(rows, cols) ==
    IF Len(rows) = 0 \/ Len(cols) = 0 THEN rows
    ELSE [i \in 1..Len(rows) |-> SpreadDelete(rows[i], cols).newRow]

\* The caller's array as removeColumns leaves it
removeColumnsInput(rows, cols) ==
    IF Len(rows) = 0 \/ Len(cols) = 0 THEN rows
    ELSE [i \in 1..Len(rows) |-> SpreadDelete(rows[i], cols).row]

-----------------------------------------------------------------------------
(* Coercions of the language that the checks rely on *)

\* array.join(sep) of an array of strings
RECURSIVE Join(_, _)
Join(seq, sep) ==
    IF seq = <<>> THEN <<>>
    ELSE IF Len(seq) = 1 THEN seq[1].v
    ELSE seq[1].v \o <<sep>> \o Join(Tail(seq), sep)

\* String(value)
ToStringValue(value) ==
    CASE value.t = "string" -> value.v
      [] value.t = "number" -> NumberToString(value.v)
      [] value.t = "boolean" ->
            IF value.v THEN <<"t", "r", "u", "e">> ELSE <<"f", "a", "l", "s", "e">>
      [] value.t = "array" -> Join(value.v, ",")
      [] value.t = "null" -> <<"n", "u", "l", "l">>
      [] OTHER -> <<"u", "n", "d", "e", "f", "i", "n", "e", "d">>

\* The number a relational operator compares a value as
ToNumber(value) ==
    CASE value.t = "number" -> Fin(value.v)
      [] value.t = "string" -> StringToNumber(value.v)
      [] value.t = "boolean" -> Fin(IF value.v THEN 10 ELSE 0)
      [] value.t = "null" -> Fin(0)
      [] value.t = "array" -> StringToNumber(Join(value.v, ","))
      [] OTHER -> NaN

\* if (value): the values that count as true
Truthy(value) ==
    CASE value.t = "string" -> value.v # <<>>
      [] value.t = "number" -> value.v # 0
      [] value.t = "boolean" -> value.v
      [] value.t = "array" -> TRUE
      [] value.t = "date" -> TRUE
      [] OTHER -> FALSE

\* str.length as a number (in tenths, as every number)
LengthOf(s) == Fin(Len(s) * 10)

\* str.split(",").map((v) => v.trim()), as strings
SplitTrim(s) ==
    LET parts == Split(s, ",") IN [i \in 1..Len(parts) |-> Str(Trim(parts[i]))]

\* str.split("-").map(Number): each part as a number
SplitNumbers(s) ==
    LET parts == Split(s, "-")
    IN [i \in 1..Len(parts) |-> StringToNumber(parts[i])]

\* const [a, b] = numbers: the element, NaN-comparing undefined past the end
NumberAt(numbers, i) == IF i <= Len(numbers) THEN numbers[i] ELSE NaN

-----------------------------------------------------------------------------
(* Type checking *)

\* What a check returns: null, an error, or nothing because it threw
NoError == [kind |-> "null"]
Thrown == [kind |-> "throw"]
TypeError(message, type, suggestion) ==
    [kind |-> "error", message |-> message, type |-> type,
     suggestion |-> suggestion]

validateTypeString(value, typeConfig) ==
    LET minLength == typeConfig.string.minLength
        maxLength == typeConfig.string.maxLength
    IN IF typeof(value) # "string"
       THEN TypeError(Msg("Value must be text, got ${typeof value}", <<typeof(value)>>),
                      "format", Msg("Enter a text value", <<>>))
       ELSE IF minLength > 0 /\ Len(value.v) < minLength
       THEN TypeError(Msg("Text is too short (minimum ${minLength} characters)", <<minLength>>),
                      "invalid",
                      Msg("Enter at least ${minLength} characters", <<minLength>>))
       ELSE IF maxLength > 0 /\ Len(value.v) > maxLength
       THEN TypeError(Msg("Text is too long (maximum ${maxLength} characters)", <<maxLength>>),
                      "invalid",
                      Msg("Enter no more than ${maxLength} characters", <<maxLength>>))
       ELSE NoError

validateTypeNumber(value, typeConfig) ==
    LET min == typeConfig.number.min
        max == typeConfig.number.max
        integerOnly == typeConfig.number.integerOnly
        numValue == IF typeof(value) = "number" THEN Fin(value.v)
                    ELSE parseFloat(value.v)
    IN IF typeof(value) \notin {"number", "string"}
       THEN TypeError(Msg("Value must be a number, got ${typeof value}", <<typeof(value)>>),
                      "format", Msg("Enter a numeric value", <<>>))
       ELSE IF typeof(value) = "string" /\ numValue.nan
       THEN TypeError(Msg("Value must be a number, got \"${value}\"", <<value>>),
                      "format", Msg("Enter a numeric value", <<>>))
       ELSE IF integerOnly /\ numValue.n % 10 # 0
       THEN TypeError(Msg("Value must be an integer, got ${numValue}", <<numValue>>),
                      "format",
                      Msg("Enter a whole number without decimals", <<>>))
       ELSE IF min # JsNull /\ Lt(numValue, ToNumber(min))
       THEN TypeError(Msg("Value is too small (minimum ${min})", <<min>>),
                      "invalid", Msg("Enter a value of at least ${min}", <<min>>))
       ELSE IF max # JsNull /\ Gt(numValue, ToNumber(max))
       THEN TypeError(Msg("Value is too large (maximum ${max})", <<max>>),
                      "invalid",
                      Msg("Enter a value no greater than ${max}", <<max>>))
       ELSE NoError

validateTypeDate(value, typeConfig) ==
    LET minDate == typeConfig.date.min
        maxDate == typeConfig.date.max
        format == IF typeConfig.date.format # <<>> THEN typeConfig.date.format
                  ELSE <<"Y", "Y", "Y", "Y", "-", "M", "M", "-", "D", "D">>
        dateValue == IF value.t = "date" THEN Fin(value.v) ELSE DateParse(value.v)
    IN IF value.t # "date" /\ typeof(value) # "string"
       THEN TypeError(Msg("Value must be a date, got ${typeof value}", <<typeof(value)>>),
                      "format", Msg("Enter a date in ${format} format", <<format>>))
       ELSE IF value.t # "date" /\ dateValue.nan
       THEN TypeError(Msg("Value must be a valid date, got \"${value}\"", <<value>>),
                      "format", Msg("Enter a date in ${format} format", <<format>>))
       ELSE IF minDate # <<>> /\ Lt(dateValue, DateParse(minDate))
       THEN TypeError(Msg("Date is too early (minimum ${minDate})", <<minDate>>),
                      "invalid",
                      Msg("Enter a date on or after ${minDate}", <<minDate>>))
       ELSE IF maxDate # <<>> /\ Gt(dateValue, DateParse(maxDate))
       THEN TypeError(Msg("Date is too late (maximum ${maxDate})", <<maxDate>>),
                      "invalid",
                      Msg("Enter a date on or before ${maxDate}", <<maxDate>>))
       ELSE NoError

validateTypeBoolean(value, typeConfig) ==
    LET trueValues == typeConfig.boolean.trueValues
        falseValues == typeConfig.boolean.falseValues
        caseSensitive == typeConfig.boolean.caseSensitive
        norm(s) == IF caseSensitive THEN s ELSE toLowerCase(s)
        strValue == norm(value.v)
        normalized(vs) == [i \in 1..Len(vs) |-> norm(vs[i])]
    IN IF typeof(value) = "boolean" THEN NoError
       ELSE IF typeof(value) = "string"
       THEN IF ~Includes(normalized(trueValues), strValue)
               /\ ~Includes(normalized(falseValues), strValue)
            THEN TypeError(Msg("Value must be a boolean (${trueValues} or ${falseValues})",
                               <<trueValues, falseValues>>),
                           "format",
                           Msg("Enter one of: ${values}", <<trueValues \o falseValues>>))
            ELSE NoError
       ELSE TypeError(Msg("Value must be a boolean, got ${typeof value}", <<typeof(value)>>),
                      "format",
                      Msg("Enter one of: ${values}", <<trueValues \o falseValues>>))

\* An email check that calls the string methods on whatever it is given: a
\* value that is not a string has none and the call raises
validateTypeEmailUnguarded(value, typeConfig) ==
    IF typeof(value) # "string" THEN Thrown ELSE NoError

validateTypeEmail(value, typeConfig) ==
    LET pattern == IF typeConfig.email.pattern # <<>>
                   THEN typeConfig.email.pattern ELSE EmailPattern
        allowedDomains == typeConfig.email.allowedDomains
        domain == At(Split(value.v, "@"), 1)
    IN IF typeof(value) # "string"
       THEN TypeError(Msg("Email must be text, got ${typeof value}", <<typeof(value)>>),
                      "format", Msg("Enter a valid email address", <<>>))
       ELSE IF ~RegExpCompiles(pattern) THEN Thrown
       ELSE IF ~RegExpTest(pattern, value.v)
       THEN TypeError(Msg("Invalid email format", <<>>), "format",
                      Msg("Enter a valid email address (e.g., user@example.com)", <<>>))
       ELSE IF Len(allowedDomains) > 0 /\ ~Includes(allowedDomains, domain)
       THEN TypeError(Msg("Email domain not allowed", <<>>), "invalid",
                      Msg("Use an email with one of these domains: ${domains}",
                          <<allowedDomains>>))
       ELSE NoError

validateTypePhone(value, typeConfig) ==
    LET pattern == IF typeConfig.phone.pattern # <<>>
                   THEN typeConfig.phone.pattern ELSE PhonePattern
        phoneStr == ToStringValue(value)
    IN IF typeof(value) \notin {"string", "number"}
       THEN TypeError(Msg("Phone must be text or number, got ${typeof value}",
                          <<typeof(value)>>),
                      "format", Msg("Enter a valid phone number", <<>>))
       ELSE IF ~RegExpCompiles(pattern) THEN Thrown
       ELSE IF ~RegExpTest(pattern, phoneStr)
       THEN TypeError(Msg("Invalid phone number format", <<>>), "format",
                      IF typeConfig.phone.format # <<>>
                      THEN Msg("Enter a phone number in ${format} format",
                               <<typeConfig.phone.format>>)
                      ELSE Msg("Enter a valid phone number", <<>>))
       ELSE IF ~typeConfig.phone.allowInternational /\ Includes(phoneStr, "+")
       THEN TypeError(Msg("International phone numbers not allowed", <<>>),
                      "invalid",
                      Msg("Enter a local phone number without country code", <<>>))
       ELSE NoError

validateType(value, type, typeConfig) ==
    IF IsEmptyValue(value) THEN NoError
    ELSE CASE type = "string" -> validateTypeString(value, typeConfig)
           [] type = "number" -> validateTypeNumber(value, typeConfig)
           [] type = "date" -> validateTypeDate(value, typeConfig)
           [] type = "boolean" -> validateTypeBoolean(value, typeConfig)
           [] type = "email" -> validateTypeEmail(value, typeConfig)
           [] type = "phone" -> validateTypePhone(value, typeConfig)
           [] OTHER -> NoError

\* validateFormat: only a string column with a string value is matched, and
\* a format that does not compile is caught and skipped
validateFormat(value, type, format) ==
    IF format = <<>> \/ IsEmptyValue(value) THEN NoError
    ELSE IF type = "string" /\ typeof(value) = "string"
            /\ RegExpCompiles(format) /\ ~RegExpTest(format, value.v)
    THEN [kind |-> "error",
          message |-> Msg("Text does not match required format", <<>>),
          suggestion |-> Msg("Format should match pattern: ${format}", <<format>>)]
    ELSE NoError

-----------------------------------------------------------------------------
(* Rule evaluation *)

RuleValid == [valid |-> TRUE, message |-> Msg("", <<>>), type |-> "other",
              suggestion |-> Msg("", <<>>)]

RuleFailure(message, type, suggestion) ==
    [valid |-> FALSE, message |-> message, type |-> type,
     suggestion |-> suggestion]

\* A message of the configuration, as a diagnostic's message
UserMsg(text) == Msg(text, <<>>)

\* A message choice that always takes the generated text
OrMessageGenerated(rule, generated) == generated

\* rule.message || generated
OrMessage(rule, generated) ==
    IF rule.message # "" THEN UserMsg(rule.message) ELSE generated

\* Array.isArray(rule.value) ? rule.value
\*     : String(rule.value).split(",").map((v) => v.trim())
ListOf(value) ==
    IF value.t = "array" THEN value.v ELSE SplitTrim(ToStringValue(value))

ruleMin(value, rule, columnType) ==
    IF columnType = "number" /\ typeof(value) = "number"
    THEN IF Lt(Fin(value.v), ToNumber(rule.value))
         THEN RuleFailure(Msg("Value must be at least ${rule.value}", <<rule.value>>),
                          "invalid",
                          Msg("Enter a value of at least ${rule.value}", <<rule.value>>))
         ELSE RuleValid
    ELSE IF typeof(value) = "string" /\ Lt(LengthOf(value.v), ToNumber(rule.value))
    THEN RuleFailure(Msg("Text must be at least ${rule.value} characters", <<rule.value>>),
                     "invalid",
                     Msg("Enter at least ${rule.value} characters", <<rule.value>>))
    ELSE RuleValid

ruleMax(value, rule, columnType) ==
    IF columnType = "number" /\ typeof(value) = "number"
    THEN IF Gt(Fin(value.v), ToNumber(rule.value))
         THEN RuleFailure(Msg("Value must be at most ${rule.value}", <<rule.value>>),
                          "invalid",
                          Msg("Enter a value no greater than ${rule.value}", <<rule.value>>))
         ELSE RuleValid
    ELSE IF typeof(value) = "string" /\ Gt(LengthOf(value.v), ToNumber(rule.value))
    THEN RuleFailure(Msg("Text must be at most ${rule.value} characters", <<rule.value>>),
                     "invalid",
                     Msg("Enter no more than ${rule.value} characters", <<rule.value>>))
    ELSE RuleValid

\* The try/catch around new RegExp: a pattern that does not compile is
\* logged and the rule passes
rulePattern(value, rule) ==
    IF typeof(value) = "string" /\ RegExpCompiles(rule.value.v)
       /\ ~RegExpTest(rule.value.v, value.v)
    THEN RuleFailure(OrMessage(rule, Msg("Value does not match required pattern", <<>>)),
                     "format",
                     Msg("Enter a value matching the pattern: ${rule.value}", <<rule.value>>))
    ELSE RuleValid

ruleEnum(value, rule) ==
    IF Truthy(rule.value) /\ ~Includes(ListOf(rule.value), value)
    THEN RuleFailure(OrMessage(rule, Msg("Value must be one of: ${allowedValues}",
                                         <<ListOf(rule.value)>>)),
                     "invalid",
                     Msg("Choose one of: ${allowedValues}", <<ListOf(rule.value)>>))
    ELSE RuleValid

\* The number branch of range, on the two parsed bounds
ruleRangeNumber(value, rule, min, max) ==
    IF Lt(Fin(value.v), min) \/ Gt(Fin(value.v), max)
    THEN RuleFailure(OrMessage(rule, Msg("Value must be between ${min} and ${max}",
                                         <<min, max>>)),
                     "invalid",
                     Msg("Enter a value between ${min} and ${max}", <<min, max>>))
    ELSE RuleValid

\* The date branch of range, on the cell's date and the two bound strings
ruleRangeDate(date, rule, minStr, maxStr) ==
    IF Lt(date, ToDate(minStr)) \/ Gt(date, ToDate(maxStr))
    THEN RuleFailure(OrMessage(rule, Msg("Date must be between ${minStr} and ${maxStr}",
                                         <<minStr, maxStr>>)),
                     "invalid",
                     Msg("Enter a date between ${minStr} and ${maxStr}",
                         <<minStr, maxStr>>))
    ELSE RuleValid

\* const [min, max] = bounds
BoundsNumber(value, rule, bounds) ==
    ruleRangeNumber(value, rule, NumberAt(bounds, 1), NumberAt(bounds, 2))

\* const [minStr, maxStr] = parts
BoundsDate(value, rule, parts) ==
    ruleRangeDate(ToDate(value), rule, At(parts, 0), At(parts, 1))

ruleRange(value, rule, columnType) ==
    IF columnType = "number" /\ typeof(value) = "number"
    THEN BoundsNumber(value, rule, SplitNumbers(ToStringValue(rule.value)))
    ELSE IF columnType = "date"
    THEN BoundsDate(value, rule, Split(ToStringValue(rule.value), "-"))
    ELSE RuleValid

\* The comparison of precision, on the digits after the decimal point
rulePrecisionDecimals(decimalStr, rule) ==
    IF Gt(LengthOf(decimalStr), ToNumber(rule.value))
    THEN RuleFailure(OrMessage(rule,
                         Msg("Value must have at most ${rule.value} decimal places",
                             <<rule.value>>)),
                     "format",
                     Msg("Enter a number with at most ${rule.value} decimal places",
                         <<rule.value>>))
    ELSE RuleValid

\* value.toString().split(".")[1] || ""
DecimalsOf(decimals) == IF Truthy(decimals) THEN decimals.v ELSE <<>>

rulePrecision(value, rule, columnType) ==
    IF columnType = "number" /\ typeof(value) = "number"
    THEN rulePrecisionDecimals(DecimalsOf(At(Split(NumberToString(value.v), "."), 1)),
                               rule)
    ELSE RuleValid

ruleDomain(value, rule, columnType) ==
    IF columnType = "email" /\ typeof(value) = "string"
       /\ ~Includes(ListOf(rule.value), At(Split(value.v, "@"), 1))
    THEN RuleFailure(OrMessage(rule, Msg("Email domain must be one of: ${allowedDomains}",
                                         <<ListOf(rule.value)>>)),
                     "invalid",
                     Msg("Use an email with one of these domains: ${allowedDomains}",
                         <<ListOf(rule.value)>>))
    ELSE RuleValid

\* The length range "min-max", on the two parsed bounds
ruleLengthRange(value, rule, min, max) ==
    IF Lt(LengthOf(value.v), min) \/ Gt(LengthOf(value.v), max)
    THEN RuleFailure(OrMessage(rule,
                         Msg("Text length must be between ${min} and ${max} characters",
                             <<min, max>>)),
                     "invalid",
                     Msg("Enter text between ${min} and ${max} characters long",
                         <<min, max>>))
    ELSE RuleValid

\* The exact length, on the parsed integer
ruleLengthExact(value, rule, exactLength) ==
    IF exactLength.nan \/ LengthOf(value.v) # exactLength
    THEN RuleFailure(OrMessage(rule, Msg("Text must be exactly ${exactLength} characters",
                                         <<exactLength>>)),
                     "invalid",
                     Msg("Enter exactly ${exactLength} characters", <<exactLength>>))
    ELSE RuleValid

\* const [min, max] = bounds, for a length range
BoundsLength(value, rule, bounds) ==
    ruleLengthRange(value, rule, NumberAt(bounds, 1), NumberAt(bounds, 2))

ruleLength(value, rule) ==
    IF typeof(value) # "string" THEN RuleValid
    ELSE IF Includes(ToStringValue(rule.value), "-")
    THEN BoundsLength(value, rule, SplitNumbers(ToStringValue(rule.value)))
    ELSE ruleLengthExact(value, rule, parseInt(ToStringValue(rule.value)))

\* The switch on rule.type; a kind with no case falls through to valid
validateRuleSwitch(value, rule, columnType, typeConfig) ==
    CASE rule.type = "min" -> ruleMin(value, rule, columnType)
      [] rule.type = "max" -> ruleMax(value, rule, columnType)
      [] rule.type = "pattern" -> rulePattern(value, rule)
      [] rule.type = "enum" -> ruleEnum(value, rule)
      [] rule.type = "range" -> ruleRange(value, rule, columnType)
      [] rule.type = "precision" -> rulePrecision(value, rule, columnType)
      [] rule.type = "domain" -> ruleDomain(value, rule, columnType)
      [] rule.type = "length" -> ruleLength(value, rule)
      [] OTHER -> RuleValid

\* A rule check that runs the switch on empty values too
validateRuleOnEmpty(value, rule, columnType, typeConfig) ==
    validateRuleSwitch(value, rule, columnType, typeConfig)

\* Empty values pass every rule: emptiness is the required check's business
validateRule(value, rule, columnType, typeConfig) ==
    IF IsEmptyValue(value) THEN RuleValid
    ELSE validateRuleSwitch(value, rule, columnType, typeConfig)

-----------------------------------------------------------------------------
(* Row and cell validation *)

RECURSIVE Concat(_)
Concat(seqs) == IF seqs = <<>> THEN <<>> ELSE Head(seqs) \o Concat(Tail(seqs))

\* A display row that counts from 1 and forgets the header row
DisplayRowNoHeader(rowIndex) == rowIndex + 1

\* rowIndex + 2: row 0 of the sheet is the header row, and users count from 1
DisplayRow(rowIndex) == rowIndex + 2

Diagnostic(rowIndex, column, value, message, type, suggestion) ==
    [row |-> DisplayRow(rowIndex), column |-> column, value |-> value,
     message |-> message, type |-> type, suggestion |-> suggestion]

\* configMap.has(name), configMap.get(name): the Map keeps the last column
\* set under a name
HasColumn(columns, name) == \E i \in 1..Len(columns) : columns[i].name = name
ColumnOf(columns, name) ==
    columns[CHOOSE i \in 1..Len(columns) :
               /\ columns[i].name = name
               /\ \A j \in (i + 1)..Len(columns) : columns[j].name # name]

\* column.displayName || name
DisplayNameOf(column) ==
    IF column.displayName # "" THEN column.displayName ELSE column.name

\* A required-field pass that does not return early on optional columns
RequiredErrorsEveryColumn(row, rowIndex, columns) ==
    Concat([i \in 1..Len(columns) |->
        IF IsEmptyValue(Get(row, columns[i].name))
        THEN <<Diagnostic(rowIndex, columns[i].name, Get(row, columns[i].name),
                   Msg("Required field \"${displayName}\" is missing or empty",
                       <<DisplayNameOf(columns[i])>>),
                   "missing",
                   Msg("Add a value for the \"${displayName}\" field",
                       <<DisplayNameOf(columns[i])>>))>>
        ELSE <<>>])

\* The required-field pass over the columns, for one row
RequiredErrors(row, rowIndex, columns) ==
    Concat([i \in 1..Len(columns) |->
        IF columns[i].required /\ IsEmptyValue(Get(row, columns[i].name))
        THEN <<Diagnostic(rowIndex, columns[i].name, Get(row, columns[i].name),
                   Msg("Required field \"${displayName}\" is missing or empty",
                       <<DisplayNameOf(columns[i])>>),
                   "missing",
                   Msg("Add a value for the \"${displayName}\" field",
                       <<DisplayNameOf(columns[i])>>))>>
        ELSE <<>>])

\* errors.push of one rule's outcome: nothing when the rule passed
RuleDiagnostics(value, column, rowIndex, rule, res) ==
    IF ~res.valid
    THEN <<Diagnostic(rowIndex, column.name, value,
                      OrMessage(rule, res.message), res.type, res.suggestion)>>
    ELSE <<>>

\* A rule loop that stops at the first rule that fails
RuleErrorsFirstOnly(value, column, rowIndex, typeConfig) ==
    LET failing == {k \in 1..Len(column.validationRules) :
                       ~validateRule(value, column.validationRules[k], column.type,
                                     typeConfig).valid}
    IN IF failing = {} THEN <<>>
       ELSE LET k == CHOOSE x \in failing : \A y \in failing : x <= y
            IN RuleDiagnostics(value, column, rowIndex, column.validationRules[k],
                               validateRule(value, column.validationRules[k],
                                            column.type, typeConfig))

\* column.validationRules.forEach: every rule is evaluated, each failure is
\* pushed
RuleErrors(value, column, rowIndex, typeConfig) ==
    Concat([k \in 1..Len(column.validationRules) |->
        RuleDiagnostics(value, column, rowIndex, column.validationRules[k],
                        validateRule(value, column.validationRules[k], column.type,
                                     typeConfig))])

\* The diagnostics of one processed cell, in the order they are pushed: type,
\* format, then the rules; threw when the type check raised
CellDiagnostics(value, column, rowIndex, typeError, formatError, typeConfig) ==
    IF typeError = Thrown THEN [threw |-> TRUE, errors |-> <<>>]
    ELSE [threw |-> FALSE,
          errors |->
             (IF typeError # NoError
              THEN <<Diagnostic(rowIndex, column.name, value, typeError.message,
                                typeError.type, typeError.suggestion)>>
              ELSE <<>>)
             \o (IF formatError # NoError
                 THEN <<Diagnostic(rowIndex, column.name, value,
                                   formatError.message, "format",
                                   formatError.suggestion)>>
                 ELSE <<>>)
             \o RuleErrors(value, column, rowIndex, typeConfig)]

\* The checks of one cell whose column the configuration declares
ColumnCellErrors(value, column, rowIndex, typeConfig) ==
    IF IsEmptyValue(value) /\ ~column.required
    THEN [threw |-> FALSE, errors |-> <<>>]
    ELSE CellDiagnostics(value, column, rowIndex,
                         validateType(value, column.type, typeConfig),
                         IF column.format # <<>> /\ ~IsEmptyValue(value)
                         THEN validateFormat(value, column.type, column.format)
                         ELSE NoError,
                         typeConfig)

\* The body of Object.keys(row).forEach for one key: the diagnostics it
\* pushes, or threw when the type check raises
CellErrors(row, columnName, rowIndex, cfg) ==
    IF ~HasColumn(cfg.columns, columnName) THEN [threw |-> FALSE, errors |-> <<>>]
    ELSE ColumnCellErrors(row[columnName], ColumnOf(cfg.columns, columnName),
                          rowIndex, cfg.dataTypeConfig)

\* One row's outcome from its required-field diagnostics and its cells'
RowOutcome(required, cells) ==
    [threw |-> \E i \in 1..Len(cells) : cells[i].threw,
     errors |-> required \o Concat([i \in 1..Len(cells) |-> cells[i].errors])]

\* The cells of a row in key order, each with what its check pushed
CellsOf(row, keys, rowIndex, cfg) ==
    [i \in 1..Len(keys) |-> CellErrors(row, keys[i], rowIndex, cfg)]

\* The body of data.forEach for one row
RowErrors(row, rowIndex, cfg) ==
    RowOutcome(RequiredErrors(row, rowIndex, cfg.columns),
               CellsOf(row, ObjectKeys(row), rowIndex, cfg))

\* A filter that lets every diagnostic into every bucket
OfTypeAny(errors, type) == errors

\* errors.filter((e) => e.type === type)
OfType(errors, type) == SelectSeq(errors, LAMBDA e : e.type = type)

\* A result that is valid as long as no required value is missing
ValidationResultNoMissing(errors) ==
    [valid |-> \A k \in 1..Len(errors) : errors[k].type # "missing",
     errors |-> errors,
     errorsByType |-> [missing |-> OfType(errors, "missing"),
                       format |-> OfType(errors, "format"),
                       invalid |-> OfType(errors, "invalid"),
                       other |-> OfType(errors, "other")]]

\* The returned object: valid, errors, and the four buckets
ValidationResult(errors) ==
    [valid |-> Len(errors) = 0,
     errors |-> errors,
     errorsByType |-> [missing |-> OfType(errors, "missing"),
                       format |-> OfType(errors, "format"),
                       invalid |-> OfType(errors, "invalid"),
                       other |-> OfType(errors, "other")]]

\* The rows' outcomes joined: Thrown when a row's check raised
JoinRows(perRow) ==
    IF \E i \in 1..Len(perRow) : perRow[i].threw THEN Thrown
    ELSE ValidationResult(Concat([i \in 1..Len(perRow) |-> perRow[i].errors]))

\* validateData(data, config): the result, or Thrown when a check raised
validateData(rows, cfg) ==
    JoinRows([i \in 1..Len(rows) |-> RowErrors(rows[i], i - 1, cfg)])

-----------------------------------------------------------------------------
(* Invalid cells on import *)

\* No call of handleInvalidData has returned yet
Pending == [t |-> "pending", v |-> 0]

\* A handling that nulls the cell under reject as under remove
handleInvalidDataRejectNulls(value, column) ==
    CASE column.invalidHandling \in {"remove", "reject"} -> JsNull
      [] column.invalidHandling = "default" ->
            IF column.defaultValue # <<>> THEN Str(column.defaultValue) ELSE JsNull
      [] OTHER -> value

\* handleInvalidData(value, column); column.defaultValue || null takes null
\* for a default that is missing or empty
handleInvalidData(value, column) ==
    CASE column.invalidHandling = "remove" -> JsNull
      [] column.invalidHandling = "default" ->
            IF column.defaultValue # <<>> THEN Str(column.defaultValue) ELSE JsNull
      [] OTHER -> value

-----------------------------------------------------------------------------
(* The first-generation validateData *)

\* >=, false with a NaN operand
Ge(a, b) == ~a.nan /\ ~b.nan /\ a.n >= b.n
Le(a, b) == ~a.nan /\ ~b.nan /\ a.n <= b.n

\* rule.validator(value) for the validators of the model
ApplyValidator(validator, value) ==
    CASE validator = "acceptAll" -> TRUE
      [] validator = "rejectAll" -> FALSE

LegacyDiagnostic(rowIndex, column, value, message) ==
    [row |-> DisplayRow(rowIndex), column |-> column, value |-> value,
     message |-> message]

\* validateType(value, type) of the first generation: a message or null
legacyValidateType(value, type) ==
    IF IsEmptyValue(value) THEN NoError
    ELSE CASE type = "string" /\ typeof(value) # "string" ->
                [kind |-> "error",
                 message |-> Msg("Value must be a string, got ${typeof value}",
                                 <<typeof(value)>>)]
           [] type = "number" /\ typeof(value) # "number" ->
                [kind |-> "error",
                 message |-> Msg("Value must be a number, got ${typeof value}",
                                 <<typeof(value)>>)]
           [] type = "date" /\ value.t # "date"
              /\ DateParse(ToStringValue(value)).nan ->
                [kind |-> "error", message |-> Msg("Value must be a valid date", <<>>)]
           [] type = "boolean" /\ typeof(value) # "boolean" ->
                [kind |-> "error",
                 message |-> Msg("Value must be a boolean, got ${typeof value}",
                                 <<typeof(value)>>)]
           [] OTHER -> NoError

\* isValid after the switch on rule.type: "valid", "invalid", or "throw"
\* when new RegExp raises
legacyRule(value, rule, columnType) ==
    CASE rule.type = "min" ->
            IF columnType = "number" /\ typeof(value) = "number"
            THEN IF Ge(Fin(value.v), ToNumber(rule.value)) THEN "valid" ELSE "invalid"
            ELSE IF typeof(value) = "string"
            THEN IF Ge(LengthOf(value.v), ToNumber(rule.value)) THEN "valid" ELSE "invalid"
            ELSE "valid"
      [] rule.type = "max" ->
            IF columnType = "number" /\ typeof(value) = "number"
            THEN IF Le(Fin(value.v), ToNumber(rule.value)) THEN "valid" ELSE "invalid"
            ELSE IF typeof(value) = "string"
            THEN IF Le(LengthOf(value.v), ToNumber(rule.value)) THEN "valid" ELSE "invalid"
            ELSE "valid"
      [] rule.type = "pattern" ->
            IF typeof(value) # "string" THEN "valid"
            ELSE IF ~RegExpCompiles(rule.value.v) THEN "throw"
            ELSE IF RegExpTest(rule.value.v, value.v) THEN "valid" ELSE "invalid"
      [] rule.type = "custom" ->
            IF rule.validator = "" \/ ApplyValidator(rule.validator, value)
            THEN "valid" ELSE "invalid"
      [] OTHER -> "valid"

\* The diagnostics of one processed cell: the type check's, then one for
\* each rule whose outcome is invalid; threw when a rule raised
legacyCellDiagnostics(value, column, rowIndex, typeError, outcome) ==
    [threw |-> \E k \in 1..Len(outcome) : outcome[k] = "throw",
     errors |->
        (IF typeError # NoError
         THEN <<LegacyDiagnostic(rowIndex, column.name, value, typeError.message)>>
         ELSE <<>>)
        \o Concat([k \in 1..Len(outcome) |->
               IF outcome[k] = "invalid"
               THEN <<LegacyDiagnostic(rowIndex, column.name, value,
                                       UserMsg(column.validationRules[k].message))>>
               ELSE <<>>])]

legacyColumnCellErrors(value, column, rowIndex) ==
    IF IsEmptyValue(value) /\ ~column.required
    THEN [threw |-> FALSE, errors |-> <<>>]
    ELSE legacyCellDiagnostics(value, column, rowIndex,
             legacyValidateType(value, column.type),
             [k \in 1..Len(column.validationRules) |->
                 legacyRule(value, column.validationRules[k], column.type)])

legacyCellErrors(row, columnName, rowIndex, columns) ==
    IF ~HasColumn(columns, columnName) THEN [threw |-> FALSE, errors |-> <<>>]
    ELSE legacyColumnCellErrors(row[columnName], ColumnOf(columns, columnName),
                                rowIndex)

legacyRequiredErrors(row, rowIndex, columns) ==
    Concat([i \in 1..Len(columns) |->
        IF columns[i].required /\ IsEmptyValue(Get(row, columns[i].name))
        THEN <<LegacyDiagnostic(rowIndex, columns[i].name,
                   Get(row, columns[i].name),
                   Msg("Required field \"${name}\" is missing or empty",
                       <<columns[i].name>>))>>
        ELSE <<>>])

legacyCellsOf(row, keys, rowIndex, columns) ==
    [i \in 1..Len(keys) |-> legacyCellErrors(row, keys[i], rowIndex, columns)]

legacyRowErrors(row, rowIndex, columns) ==
    RowOutcome(legacyRequiredErrors(row, rowIndex, columns),
               legacyCellsOf(row, ObjectKeys(row), rowIndex, columns))

LegacyResult(errors) == [valid |-> Len(errors) = 0, errors |-> errors]

legacyJoinRows(perRow) ==
    IF \E i \in 1..Len(perRow) : perRow[i].threw THEN Thrown
    ELSE LegacyResult(Concat([i \in 1..Len(perRow) |-> perRow[i].errors]))

legacyValidateData(rows, columnConfig) ==
    legacyJoinRows([i \in 1..Len(rows) |->
                       legacyRowErrors(rows[i], i - 1, columnConfig)])

-----------------------------------------------------------------------------
(* The import workflow: ExcelImportExport *)

\* The state of the component as useState creates it, no file uploaded
WorkflowIdle ==
    /\ strictSchema = FALSE
    /\ originalData = <<>>
    /\ processedData = <<>>
    /\ previewData = <<>>
    /\ validationErrors = <<>>
    /\ showSchemaValidation = FALSE
    /\ showHeaderValidation = FALSE
    /\ showAdvancedConfig = FALSE
    /\ showValidationResults = FALSE
    /\ activeTab = "upload"
    /\ isLoading = FALSE
    /\ error = JsNull
    /\ timers = <<>>
    /\ handler = ""
    /\ computed = <<>>
    /\ gates = <<>>

-----------------------------------------------------------------------------
(* The failed-submission store *)

\* The store as create() builds it, and its dialog closed
StoreIdle ==
    /\ submissions = <<>>
    /\ selectedSubmission = JsNull
    /\ dialogSelection = JsNull
    /\ showEditDialog = FALSE
    /\ retrying = JsNull
    /\ submitting = JsNull
    /\ submitResult = JsNull
    /\ returned = JsNull
    /\ nextId = 0

-----------------------------------------------------------------------------
(* Inputs common to the specifications *)

SeqsUpTo(S, n) == UNION {[1..k -> S] : k \in 0..n}

\* Schemas: at most MaxColumns columns with pairwise different names
ColumnLists(columns) ==
    {cs \in SeqsUpTo(columns, MaxColumns) :
        \A i, j \in 1..Len(cs) : i # j => cs[i].name # cs[j].name}

IdleConfig == ImporterConfig(<<>>, "warn", defaultDataTypeConfig)

-----------------------------------------------------------------------------
(* Specification of header reconciliation *)

HeaderNames == {"name", "Name", "email", "extra1"}
HeaderLists == SeqsUpTo(HeaderNames, MaxHeaders)
HeaderColumns ==
    {DefaultColumn(n, r) : n \in {"name", "email", "age"}, r \in BOOLEAN}

InitHeaders ==
    /\ fileHeaders \in HeaderLists
    /\ config \in {ImporterConfig(cs, "warn", defaultDataTypeConfig) :
                      cs \in ColumnLists(HeaderColumns)}
    /\ data = <<>>
    /\ columnsToRemove = <<>>
    /\ headerValidationResult = JsNull
    /\ schemaValidationResult = JsNull
    /\ updatedData = JsNull
    /\ validationResult = JsNull
    /\ legacyValidationResult = JsNull
    /\ lenientDateParse = FALSE
    /\ handledValue = Pending
    /\ WorkflowIdle
    /\ StoreIdle

ValidateHeadersCall ==
    /\ headerValidationResult = JsNull
    /\ headerValidationResult' = validateHeaders(fileHeaders, config)
    /\ UNCHANGED <<fileHeaders, data, config, columnsToRemove,
                   schemaValidationResult, updatedData, validationResult,
                   legacyValidationResult, lenientDateParse, handledValue,
                   workflowVars, storeVars>>

NextHeaders == ValidateHeadersCall

SpecHeaders == InitHeaders /\ [][NextHeaders]_vars

-----------------------------------------------------------------------------
(* Specification of schema drift resolution *)

SchemaKeys == {"name", "extra1", "extra2"}

SchemaValueOf(k) ==
    CASE k = "name" -> {Str(<<"a">>), Int10(1)}
      [] k = "extra1" -> {Int10(2)}
      [] OTHER -> {Str(<<"x">>)}

SchemaRows ==
    UNION {{row \in [ks -> {Str(<<"a">>), Int10(1), Int10(2), Str(<<"x">>)}] :
               \A k \in ks : row[k] \in SchemaValueOf(k)} :
           ks \in SUBSET SchemaKeys}

SchemaColumns == {DefaultColumn(n, FALSE) : n \in {"name", "extra1"}}

RemovableLists ==
    {cs \in SeqsUpTo(SchemaKeys, MaxColumns) :
        \A i, j \in 1..Len(cs) : i # j => cs[i] # cs[j]}

InitSchema ==
    /\ data \in SeqsUpTo(SchemaRows, MaxRows)
    /\ config \in {ImporterConfig(cs, h, defaultDataTypeConfig) :
                      cs \in ColumnLists(SchemaColumns),
                      h \in InvalidColumnHandling}
    /\ fileHeaders = <<>>
    /\ columnsToRemove = <<>>
    /\ headerValidationResult = JsNull
    /\ schemaValidationResult = JsNull
    /\ updatedData = JsNull
    /\ validationResult = JsNull
    /\ legacyValidationResult = JsNull
    /\ lenientDateParse = FALSE
    /\ handledValue = Pending
    /\ WorkflowIdle
    /\ StoreIdle

ValidateSchemaCall ==
    /\ schemaValidationResult = JsNull
    /\ updatedData = JsNull
    /\ schemaValidationResult' = validateSchema(data, config)
    /\ data' = validateSchemaInput(data, config)
    /\ UNCHANGED <<fileHeaders, config, columnsToRemove,
                   headerValidationResult, updatedData, validationResult,
                   legacyValidationResult, lenientDateParse, handledValue,
                   workflowVars, storeVars>>

RemoveColumnsCall ==
    /\ schemaValidationResult = JsNull
    /\ updatedData = JsNull
    /\ \E cols \in RemovableLists :
          /\ columnsToRemove' = cols
          /\ updatedData' = Arr(removeColumns(data, cols))
          /\ data' = removeColumnsInput(data, cols)
    /\ UNCHANGED <<fileHeaders, config, headerValidationResult,
                   schemaValidationResult, validationResult,
                   legacyValidationResult, lenientDateParse, handledValue,
                   workflowVars, storeVars>>

NextSchema == ValidateSchemaCall \/ RemoveColumnsCall

SpecSchema == InitSchema /\ [][NextSchema]_vars

-----------------------------------------------------------------------------
(* Specification of row and cell validation *)

Column(name, required, type, rules, format) ==
    [name |-> name, displayName |-> name, required |-> required,
     type |-> type, validationRules |-> rules, format |-> format,
     invalidHandling |-> "flag", defaultValue |-> <<>>]

Rule(type, value, message) ==
    [type |-> type, value |-> value, message |-> message, validator |-> ""]

ColumnTypes == {"string", "number", "date", "boolean", "email", "phone"}

\* Cell values as a sheet yields them: empty, text, numbers, booleans
CellValues ==
    {JsNull, Str(<<>>),
     Str(<<"a", "b", "c">>), Str(<<"1", "5">>), Str(<<"a", "@", "b", ".", "c">>),
     Str(<<"2", "0", "2", "4", "-", "0", "6", "-", "0", "1">>),
     Str(<<"Y", "e", "s">>), Str(<<"+", "1", "5", "5", "5", "1", "2", "3", "4">>),
     Int10(15), Int10(25), Num(155), Bool(TRUE)}

RuleCatalogue ==
    <<Rule("min", Int10(18), "too young"),
     Rule("max", Str(<<"3">>), ""),
     Rule("pattern", Str(DigitsPattern), ""),
     Rule("pattern", Str(BrokenPattern), "bad pattern"),
     Rule("enum", Str(<<"a", "b", "c", ",", " ", "1", "5">>), ""),
     Rule("range", Str(<<"1", "0", "-", "2", "0">>), ""),
     Rule("precision", Int10(0), ""),
     Rule("domain", Str(<<"x", ".", "y">>), "wrong domain"),
     Rule("length", Str(<<"3">>), ""),
     [type |-> "custom", value |-> Undefined, message |-> "rejected",
      validator |-> "rejectAll"]>>

strictDataTypeConfig ==
    [string |-> [minLength |-> 2, maxLength |-> 4, trim |-> TRUE],
     number |-> [min |-> Int10(10), max |-> Int10(20), precision |-> 2,
                 integerOnly |-> TRUE],
     date |-> [min |-> <<"2", "0", "2", "4", "-", "0", "7", "-", "0", "1">>,
               max |-> <<"2", "0", "2", "4", "-", "1", "2", "-", "3", "1">>,
               format |-> <<>>],
     boolean |-> [trueValues |-> <<<<"y", "e", "s">>>>,
                  falseValues |-> <<<<"n", "o">>>>,
                  caseSensitive |-> TRUE],
     email |-> [pattern |-> <<>>, allowedDomains |-> <<Str(<<"x", ".", "y">>)>>],
     phone |-> [pattern |-> <<>>, format |-> <<>>, allowInternational |-> FALSE]]

\* A type configuration whose email and phone patterns do not compile
brokenDataTypeConfig ==
    [defaultDataTypeConfig EXCEPT !.email.pattern = BrokenPattern,
                                  !.phone.pattern = BrokenPattern]

TypeConfigs == {defaultDataTypeConfig, strictDataTypeConfig, brokenDataTypeConfig}

Formats == {<<>>, DigitsPattern, BrokenPattern}

\* A row with one cell, or with none
OneCellRows(name, values) ==
    {<<>>} \cup {[k \in {name} |-> v] : v \in values}

\* The lists of up to MaxRules different rules, in the order of the catalogue
RuleLists ==
    {[i \in 1..Len(ix) |-> RuleCatalogue[ix[i]]] :
        ix \in {s \in SeqsUpTo(1..Len(RuleCatalogue), MaxRules) :
                   \A i \in 1..(Len(s) - 1) : s[i] < s[i + 1]}}

\* One column with every list of rules, one row with one cell
InitDataRules ==
    /\ config \in {ImporterConfig(<<Column("age", r, t, rules, <<>>)>>, "warn",
                                  defaultDataTypeConfig) :
                      r \in BOOLEAN, t \in ColumnTypes,
                      rules \in RuleLists}
    /\ data \in {<<row>> : row \in OneCellRows("age", CellValues)}
    /\ lenientDateParse = FALSE

\* One column with every type configuration and format, one row with one cell
InitDataTypes ==
    /\ config \in {ImporterConfig(<<Column("age", r, t, rules, f)>>, "warn", tc) :
                      r \in BOOLEAN, t \in ColumnTypes, f \in Formats,
                      tc \in TypeConfigs,
                      rules \in {<<>>, <<Rule("length", Str(<<"3">>), "")>>,
                                <<[type |-> "custom", value |-> Undefined,
                                   message |-> "accepted",
                                   validator |-> "acceptAll"]>>}}
    /\ data \in {<<row>> : row \in OneCellRows("age", CellValues)}
    /\ lenientDateParse \in BOOLEAN

TableRows ==
    UNION {{row \in [ks -> {Str(<<>>), Str(<<"a", "b", "c", "d">>), Int10(15),
                            Int10(25), Int10(1)}] :
               /\ "name" \in ks => row["name"] \in {Str(<<>>), Str(<<"a", "b", "c", "d">>)}
               /\ "age" \in ks => row["age"] \in {Int10(15), Int10(25)}
               /\ "extra1" \in ks => row["extra1"] = Int10(1)} :
           ks \in SUBSET {"name", "age", "extra1"}}

\* Two columns or an empty schema, up to MaxRows rows of up to three cells
InitDataTable ==
    /\ config \in {ImporterConfig(
                      <<Column("name", r1, "string",
                               <<Rule("length", Str(<<"3">>), "")>>, <<>>),
                        Column("age", r2, "number",
                               <<Rule("min", Int10(18), "too young")>>, <<>>)>>,
                      "warn", defaultDataTypeConfig) :
                      r1 \in BOOLEAN, r2 \in BOOLEAN} \cup {IdleConfig}
    /\ data \in SeqsUpTo(TableRows, MaxRows)
    /\ lenientDateParse = FALSE

\* Range rules as an editor of the configuration writes them: two bounds
\* joined by a hyphen
RangeRules ==
    {Rule("range", Str(<<"1", "0", "-", "2", "0">>), ""),
     Rule("range", Str(<<"-", "5", "-", "5">>), ""),
     Rule("range", Str(<<"2", "0", "2", "4", "-", "0", "1", "-", "0", "1", "-",
                         "2", "0", "2", "4", "-", "1", "2", "-", "3", "1">>), "")}

\* Numbers on both sides of zero, dates inside and after 2024
RangeCellValues ==
    {Int10(-3), Int10(3), Int10(15), Int10(25),
     Str(<<"2", "0", "2", "4", "-", "0", "6", "-", "0", "1">>),
     Str(<<"2", "0", "2", "5", "-", "0", "1", "-", "0", "1">>)}

\* One number or date column with one range rule, one row with one cell
InitDataRanges ==
    /\ config \in {ImporterConfig(<<Column("age", r, t, <<rule>>, <<>>)>>, "warn",
                                  defaultDataTypeConfig) :
                      r \in BOOLEAN, t \in {"number", "date"}, rule \in RangeRules}
    /\ data \in {<<row>> : row \in OneCellRows("age", RangeCellValues)}
    /\ lenientDateParse \in BOOLEAN

InitData ==
    /\ InitDataRules \/ InitDataTypes \/ InitDataTable \/ InitDataRanges
    /\ fileHeaders = <<>>
    /\ columnsToRemove = <<>>
    /\ headerValidationResult = JsNull
    /\ schemaValidationResult = JsNull
    /\ updatedData = JsNull
    /\ validationResult = JsNull
    /\ legacyValidationResult = JsNull
    /\ handledValue = Pending
    /\ WorkflowIdle
    /\ StoreIdle

ValidateDataCall ==
    /\ validationResult = JsNull
    /\ validationResult' = validateData(data, config)
    /\ UNCHANGED <<fileHeaders, data, config, columnsToRemove,
                   headerValidationResult, schemaValidationResult, updatedData,
                   legacyValidationResult, lenientDateParse, handledValue,
                   workflowVars, storeVars>>

LegacyValidateDataCall ==
    /\ legacyValidationResult = JsNull
    /\ legacyValidationResult' = legacyValidateData(data, config.columns)
    /\ UNCHANGED <<fileHeaders, data, config, columnsToRemove,
                   headerValidationResult, schemaValidationResult, updatedData,
                   validationResult, lenientDateParse, handledValue,
                   workflowVars, storeVars>>

NextData == ValidateDataCall \/ LegacyValidateDataCall

SpecData == InitData /\ [][NextData]_vars

-----------------------------------------------------------------------------
(* Specification of the handling of invalid cells *)

\* Defaults of a column: none configured (or empty), and two texts
DefaultValues == {<<>>, <<"N", "/", "A">>, <<"0">>}

HandlingColumns ==
    {[Column("age", r, "string", <<>>, <<>>)
        EXCEPT !.invalidHandling = h, !.defaultValue = d] :
        r \in BOOLEAN, h \in InvalidDataHandling, d \in DefaultValues}

\* One column with every handling and default, one row with one cell
InitHandling ==
    /\ config \in {ImporterConfig(<<column>>, "warn", defaultDataTypeConfig) :
                      column \in HandlingColumns}
    /\ data \in {<<[k \in {"age"} |-> v]>> : v \in CellValues}
    /\ fileHeaders = <<>>
    /\ columnsToRemove = <<>>
    /\ headerValidationResult = JsNull
    /\ schemaValidationResult = JsNull
    /\ updatedData = JsNull
    /\ validationResult = JsNull
    /\ legacyValidationResult = JsNull
    /\ lenientDateParse = FALSE
    /\ handledValue = Pending
    /\ WorkflowIdle
    /\ StoreIdle

HandleInvalidDataCall ==
    /\ handledValue = Pending
    /\ handledValue' = handleInvalidData(data[1][config.columns[1].name],
                                         config.columns[1])
    /\ UNCHANGED <<fileHeaders, data, config, columnsToRemove,
                   headerValidationResult, schemaValidationResult, updatedData,
                   validationResult, legacyValidationResult, lenientDateParse,
                   workflowVars, storeVars>>

NextHandling == HandleInvalidDataCall

SpecHandling == InitHandling /\ [][NextHandling]_vars

-----------------------------------------------------------------------------
(* Claims on schema drift resolution, under SpecSchema *)

SchemaNamesOf(cfg) == {cfg.columns[i].name : i \in 1..Len(cfg.columns)}

SchemaCalled == schemaValidationResult # JsNull

\* The keys of any row that the schema does not declare
UndeclaredKeys(rows, cfg) ==
    UNION {DOMAIN rows[i] : i \in 1..Len(rows)} \ SchemaNamesOf(cfg)

\* C2: under Ignore or Warn every key of every returned row is a declared
\* schema column, whichever rows carry the undeclared keys.
C2_CleanedRowsConformant ==
    (SchemaCalled /\ config.invalidColumnHandling \in {"ignore", "warn"})
    => \A i \in 1..Len(schemaValidationResult.validData) :
          DOMAIN schemaValidationResult.validData[i] \subseteq SchemaNamesOf(config)

\* C3: for a non-empty row set valid is true exactly when extraColumns is
\* empty or the policy is Include; for an empty row set valid is true.
C3_ValidFlag ==
    SchemaCalled
    => IF Len(data) = 0
       THEN schemaValidationResult.valid = TRUE
       ELSE schemaValidationResult.valid
            = (schemaValidationResult.extraColumns = <<>>
               \/ config.invalidColumnHandling = "include")

C3_Witness ==
    /\ SchemaCalled
    /\ Len(data) > 0
    /\ schemaValidationResult.extraColumns # <<>>
    /\ config.invalidColumnHandling = "include"
    /\ schemaValidationResult.valid

\* C4 as stated: with undeclared columns in the rows and policy Ignore the
\* result lists them, returns the rows without them and has valid = true.
C4_IgnoreReportsValid ==
    (SchemaCalled /\ config.invalidColumnHandling = "ignore"
     /\ UndeclaredKeys(data, config) # {})
    => /\ Range(schemaValidationResult.extraColumns) = UndeclaredKeys(data, config)
       /\ schemaValidationResult.validData
          = [i \in 1..Len(data) |->
                [k \in DOMAIN data[i] \ UndeclaredKeys(data, config) |-> data[i][k]]]
       /\ schemaValidationResult.valid = TRUE

\* C4 amended: with undeclared columns in the first row and policy Ignore the
\* result lists the first row's undeclared columns, returns every row without
\* them and has valid = false.
C4_IgnoreStripsAndFlags ==
    (SchemaCalled /\ config.invalidColumnHandling = "ignore"
     /\ Len(data) > 0 /\ UndeclaredKeys(<<data[1]>>, config) # {})
    => /\ Range(schemaValidationResult.extraColumns)
          = UndeclaredKeys(<<data[1]>>, config)
       /\ Len(schemaValidationResult.extraColumns)
          = Cardinality(UndeclaredKeys(<<data[1]>>, config))
       /\ schemaValidationResult.validData
          = [i \in 1..Len(data) |->
                [k \in DOMAIN data[i] \ UndeclaredKeys(<<data[1]>>, config)
                    |-> data[i][k]]]
       /\ schemaValidationResult.valid = FALSE

C4_Witness ==
    /\ SchemaCalled
    /\ config.invalidColumnHandling = "ignore"
    /\ data = <<[name |-> Int10(1), extra1 |-> Int10(2)]>>
    /\ SchemaNamesOf(config) = {"name"}
    /\ schemaValidationResult.extraColumns = <<"extra1">>
    /\ schemaValidationResult.validData = <<[name |-> Int10(1)]>>

\* C5: under Reject and under Include the returned row set is the input row
\* set: the same rows in the same order with all their keys and values.
C5_RejectIncludeUnchanged ==
    (SchemaCalled /\ config.invalidColumnHandling \in {"reject", "include"})
    => schemaValidationResult.validData = data

C5_Witness ==
    /\ SchemaCalled
    /\ config.invalidColumnHandling = "reject"
    /\ data = <<[name |-> Int10(1), extra1 |-> Int10(2)]>>
    /\ SchemaNamesOf(config) = {"name"}
    /\ schemaValidationResult.extraColumns = <<"extra1">>
    /\ schemaValidationResult.valid = FALSE

\* out is rows with exactly the keys in removed pruned from every row
Pruned(rows, out, removed) ==
    /\ Len(out) = Len(rows)
    /\ \A i \in 1..Len(rows) :
          /\ DOMAIN out[i] = DOMAIN rows[i] \ removed
          /\ \A k \in DOMAIN out[i] : out[i][k] = rows[i][k]

\* C6: column removal by validateSchema under Ignore/Warn and by
\* removeColumns returns as many rows as it was given, in the same order,
\* each without the removed keys and with every other key at its value, and
\* leaves the rows it was given as they were.
C6_RemovalPrunesOnly ==
    [][/\ (schemaValidationResult' # schemaValidationResult
           /\ config.invalidColumnHandling \in {"ignore", "warn"})
          => /\ data' = data
             /\ Pruned(data, schemaValidationResult'.validData,
                       Range(schemaValidationResult'.extraColumns))
       /\ (updatedData' # updatedData)
          => /\ data' = data
             /\ Pruned(data, updatedData'.v, Range(columnsToRemove'))]_vars

C6_Witness ==
    /\ updatedData # JsNull
    /\ Len(data) >= 2
    /\ \E i \in 1..Len(data) :
          /\ DOMAIN updatedData.v[i] # DOMAIN data[i]
          /\ DOMAIN updatedData.v[i] # {}

-----------------------------------------------------------------------------
(* Claims on header reconciliation, under SpecHeaders *)

HeadersCalled == headerValidationResult # JsNull

ColumnNamesOf(cfg) == [i \in 1..Len(cfg.columns) |-> cfg.columns[i].name]

RemoveAt(seq, i) == SubSeq(seq, 1, i - 1) \o SubSeq(seq, i + 1, Len(seq))

\* C7: valid is true exactly when missingRequired is empty, and a header
\* that matches no schema column, added to or taken from the file headers,
\* leaves valid as it is.
C7_ValidOnlyByMissingRequired ==
    HeadersCalled
    => /\ headerValidationResult.valid
          = (headerValidationResult.missingRequired = <<>>)
       /\ \A h \in HeaderNames \ Range(ColumnNamesOf(config)) :
             validateHeaders(Append(fileHeaders, h), config).valid
             = headerValidationResult.valid
       /\ \A i \in 1..Len(fileHeaders) :
             fileHeaders[i] \notin Range(ColumnNamesOf(config))
             => validateHeaders(RemoveAt(fileHeaders, i), config).valid
                = headerValidationResult.valid

C7_Witness ==
    /\ HeadersCalled
    /\ headerValidationResult.unrecognized # <<>>
    /\ headerValidationResult.missingRequired = <<>>
    /\ headerValidationResult.valid
    /\ \E i \in 1..Len(config.columns) : config.columns[i].required

\* C8: present is the schema columns whose name is a file header,
\* missingRequired the required schema columns whose name is no file header,
\* unrecognized the file headers that are no schema column name; names are
\* equal only when they are the same string, case included.
C8_ExactClassification ==
    HeadersCalled
    => /\ headerValidationResult.present
          = SelectSeq(ColumnNamesOf(config),
                      LAMBDA n : n \in Range(fileHeaders))
       /\ headerValidationResult.missingRequired
          = ColumnNamesOf(
               [columns |-> SelectSeq(config.columns,
                    LAMBDA c : c.required /\ c.name \notin Range(fileHeaders))])
       /\ headerValidationResult.unrecognized
          = SelectSeq(fileHeaders,
                      LAMBDA h : h \notin Range(ColumnNamesOf(config)))

C8_Witness ==
    /\ HeadersCalled
    /\ fileHeaders = <<"Name", "extra1">>
    /\ ColumnNamesOf(config) = <<"name", "email">>
    /\ config.columns[1].required /\ ~config.columns[2].required
    /\ headerValidationResult.missingRequired = <<"name">>
    /\ headerValidationResult.present = <<>>
    /\ headerValidationResult.unrecognized = <<"Name", "extra1">>

-----------------------------------------------------------------------------
(* Claims on row and cell validation, under SpecData *)

\* validateData was called and returned a result
DataReturned == validationResult # JsNull /\ validationResult # Thrown

\* The first-generation validateData was called and returned a result
LegacyReturned == legacyValidationResult # JsNull /\ legacyValidationResult # Thrown

\* A diagnostic without its row number
WithoutRow(e) == [f \in (DOMAIN e) \ {"row"} |-> e[f]]

WithoutRows(errors) == [k \in 1..Len(errors) |-> WithoutRow(errors[k])]

\* The diagnostics that carry a given row number, in order
OnRow(errors, n) == SelectSeq(errors, LAMBDA e : e.row = n)

\* The diagnostics of one cell, in order
OnCell(errors, n, name) ==
    SelectSeq(errors, LAMBDA e : e.row = n /\ e.column = name)

\* The row numbers lie in 2..rows + 1, and the diagnostics numbered i + 2
\* are those that validating the row at index i on its own yields
OffsetHolds(errors, alone(_)) ==
    /\ \A k \in 1..Len(errors) : errors[k].row \in 2..(Len(data) + 1)
    /\ \A i \in 0..(Len(data) - 1) :
          WithoutRows(OnRow(errors, i + 2)) = WithoutRows(alone(data[i + 1]))

\* C1: every diagnostic that validateData emits for the row at index i has
\* row = i + 2, and no diagnostic carries a row number outside 2..rows + 1;
\* the same holds for the first-generation validateData
C1_RowOffset ==
    /\ DataReturned =>
          OffsetHolds(validationResult.errors,
                      LAMBDA row : validateData(<<row>>, config).errors)
    /\ LegacyReturned =>
          OffsetHolds(legacyValidationResult.errors,
                      LAMBDA row : legacyValidateData(<<row>>, config.columns).errors)

\* Two rows, the first clean and the second with diagnostics, in both
\* generations: every diagnostic carries row 3
C1_Witness ==
    /\ DataReturned /\ LegacyReturned
    /\ Len(data) = 2
    /\ Len(validationResult.errors) >= 2
    /\ \A k \in 1..Len(validationResult.errors) : validationResult.errors[k].row = 3
    /\ legacyValidationResult.errors # <<>>
    /\ \A k \in 1..Len(legacyValidationResult.errors) :
          legacyValidationResult.errors[k].row = 3

\* C9: a required column whose value in a row is absent, null or the empty
\* string gets exactly one diagnostic on that cell, of type missing, and so
\* no type, format or rule diagnostic, whatever the column's type, format
\* and rules
C9_RequiredEmptyOnlyMissing ==
    DataReturned =>
        \A i \in 1..Len(data), c \in 1..Len(config.columns) :
            (config.columns[c].required
             /\ IsEmptyValue(Get(data[i], config.columns[c].name)))
            => /\ Len(OnCell(validationResult.errors, i + 1, config.columns[c].name)) = 1
               /\ OnCell(validationResult.errors, i + 1,
                         config.columns[c].name)[1].type = "missing"

\* Scenario A with rules: a required email column with two rules, the cell
\* present and empty, one diagnostic in all
C9_Witness ==
    /\ DataReturned
    /\ Len(config.columns) = 1
    /\ config.columns[1].required
    /\ config.columns[1].type = "email"
    /\ Len(config.columns[1].validationRules) = 2
    /\ data = <<[k \in {config.columns[1].name} |-> Str(<<>>)]>>
    /\ Len(validationResult.errors) = 1
    /\ validationResult.errors[1].type = "missing"

\* The indices of the rules of a column that a value fails, ascending
FailingRules(value, column, typeConfig) ==
    SelectSeq([k \in 1..Len(column.validationRules) |-> k],
              LAMBDA k : ~validateRule(value, column.validationRules[k],
                                       column.type, typeConfig).valid)

\* How many diagnostics the type check and the format check push for a cell
TypeAndFormatCount(value, column, typeConfig) ==
    (IF validateType(value, column.type, typeConfig) # NoError THEN 1 ELSE 0)
    + (IF validateFormat(value, column.type, column.format) # NoError THEN 1 ELSE 0)

\* The cell's diagnostics end with one diagnostic per failing rule, in
\* declaration order, after the type and format diagnostics
RulesAllReported(cell, value, column, failing, typeConfig) ==
    /\ Len(cell) = TypeAndFormatCount(value, column, typeConfig) + Len(failing)
    /\ \A j \in 1..Len(failing) :
          /\ cell[Len(cell) - Len(failing) + j].message =
                OrMessage(column.validationRules[failing[j]],
                          validateRule(value, column.validationRules[failing[j]],
                                       column.type, typeConfig).message)
          /\ cell[Len(cell) - Len(failing) + j].type =
                validateRule(value, column.validationRules[failing[j]],
                             column.type, typeConfig).type

\* C10: for a non-empty cell every rule of the column is evaluated: the
\* cell has one rule diagnostic per failing rule, in declaration order, and
\* a type or format diagnostic on the cell does not suppress them
C10_RulesNeverShortCircuit ==
    DataReturned =>
        \A i \in 1..Len(data), c \in 1..Len(config.columns) :
            (config.columns[c].name \in DOMAIN data[i]
             /\ ~IsEmptyValue(data[i][config.columns[c].name]))
            => RulesAllReported(
                   OnCell(validationResult.errors, i + 1, config.columns[c].name),
                   data[i][config.columns[c].name], config.columns[c],
                   FailingRules(data[i][config.columns[c].name], config.columns[c],
                                config.dataTypeConfig),
                   config.dataTypeConfig)

\* A cell with a type diagnostic and two failing rules: three diagnostics
C10_Witness ==
    /\ DataReturned
    /\ Len(config.columns) = 1
    /\ Len(data) = 1
    /\ config.columns[1].name \in DOMAIN data[1]
    /\ validateType(data[1][config.columns[1].name], config.columns[1].type,
                    config.dataTypeConfig) # NoError
    /\ Len(FailingRules(data[1][config.columns[1].name], config.columns[1],
                        config.dataTypeConfig)) = 2
    /\ Len(validationResult.errors) = 3

\* validateData was called, whether it returned or raised
DataCalled == validationResult # JsNull

\* The email and phone patterns of the type configuration are regular
\* expressions
TypePatternsWellFormed(typeConfig) ==
    /\ typeConfig.email.pattern # BrokenPattern
    /\ typeConfig.phone.pattern # BrokenPattern

\* C11: with a well-formed type configuration validateData never raises: for
\* empty rows, an empty schema, keys the schema does not declare and cell
\* values of any kind it returns a result
C11_NeverRaises ==
    (DataCalled /\ TypePatternsWellFormed(config.dataTypeConfig))
    => /\ validationResult # Thrown
       /\ DOMAIN validationResult = {"valid", "errors", "errorsByType"}

\* An empty schema, an empty row and then a row with three cells: the call
\* returns, with nothing to report
C11_Witness ==
    /\ DataReturned
    /\ config.columns = <<>>
    /\ Len(data) = 2
    /\ DOMAIN data[1] = {}
    /\ DOMAIN data[2] = {"name", "age", "extra1"}
    /\ validationResult.errors = <<>>

\* The rules of a column that are pattern rules whose pattern does not compile
BrokenPatternRules(column) ==
    {k \in 1..Len(column.validationRules) :
        /\ column.validationRules[k].type = "pattern"
        /\ column.validationRules[k].value = Str(BrokenPattern)}

\* No diagnostic of the cell comes from a pattern that does not compile:
\* neither from a pattern rule nor from the column's format
BrokenPatternsPass(value, column, typeConfig) ==
    /\ \A k \in BrokenPatternRules(column) :
          validateRule(value, column.validationRules[k], column.type, typeConfig).valid
    /\ column.format = BrokenPattern
       => validateFormat(value, column.type, column.format) = NoError

\* C12: a regular expression of the configuration that does not compile is
\* swallowed, be it a pattern rule's value, a column's format or the email or
\* phone pattern of the type configuration: validateData does not raise and
\* the check that would have used the pattern reports nothing
C12_BrokenRegexSwallowed ==
    DataCalled =>
        /\ validationResult # Thrown
        /\ \A i \in 1..Len(data), c \in 1..Len(config.columns) :
              config.columns[c].name \in DOMAIN data[i]
              => BrokenPatternsPass(data[i][config.columns[c].name],
                                    config.columns[c], config.dataTypeConfig)

\* The custom rules of a column whose predicate rejects a value
RejectingCustomRules(value, column) ==
    {k \in 1..Len(column.validationRules) :
        /\ column.validationRules[k].type = "custom"
        /\ column.validationRules[k].validator # ""
        /\ ~ApplyValidator(column.validationRules[k].validator, value)}

\* C13: a custom rule delegates to its predicate: a non-empty cell gets one
\* diagnostic of type other for each custom rule whose validator returns
\* false for its value, and none for a validator that returns true
C13_CustomDelegates ==
    DataReturned =>
        \A i \in 1..Len(data), c \in 1..Len(config.columns) :
            (config.columns[c].name \in DOMAIN data[i]
             /\ ~IsEmptyValue(data[i][config.columns[c].name]))
            => Len(OfType(OnCell(validationResult.errors, i + 1,
                                 config.columns[c].name), "other"))
               = Cardinality(RejectingCustomRules(data[i][config.columns[c].name],
                                                  config.columns[c]))

\* The number the Number type check takes a value for: the value itself, or
\* what it parses from a string
NumericOf(value) ==
    IF typeof(value) = "number" THEN Fin(value.v)
    ELSE IF typeof(value) = "string" THEN parseFloat(value.v)
    ELSE NaN

\* A min (max) rule fails on a value, with type invalid, exactly when the
\* value's number is below (above) the bound
BoundRuleByValue(value, rule, column, typeConfig) ==
    /\ validateRule(value, rule, column.type, typeConfig).valid
       = ~(IF rule.type = "min"
           THEN Lt(NumericOf(value), ToNumber(rule.value))
           ELSE Gt(NumericOf(value), ToNumber(rule.value)))
    /\ ~validateRule(value, rule, column.type, typeConfig).valid
       => validateRule(value, rule, column.type, typeConfig).type = "invalid"

\* C14: on a number column a min (max) rule compares the cell's number with
\* the bound, for a native number and for a numeric string alike, and fails
\* with type invalid exactly when the number is below (above) the bound; the
\* length of the text is compared on string columns only
C14_BoundsCompareNumbers ==
    DataReturned =>
        \A i \in 1..Len(data), c \in 1..Len(config.columns) :
            \A k \in 1..Len(config.columns[c].validationRules) :
                (/\ config.columns[c].name \in DOMAIN data[i]
                 /\ ~IsEmptyValue(data[i][config.columns[c].name])
                 /\ config.columns[c].validationRules[k].type \in {"min", "max"})
                => /\ (config.columns[c].type = "number"
                       /\ ~NumericOf(data[i][config.columns[c].name]).nan)
                      => BoundRuleByValue(data[i][config.columns[c].name],
                                          config.columns[c].validationRules[k],
                                          config.columns[c], config.dataTypeConfig)
                   /\ config.columns[c].type \notin {"number", "string"}
                      => validateRule(data[i][config.columns[c].name],
                                      config.columns[c].validationRules[k],
                                      config.columns[c].type,
                                      config.dataTypeConfig).valid

\* The position of the hyphen that joins the two bounds of a number range:
\* the first one that follows a digit (0 when there is none)
BoundsHyphen(s) ==
    IF \E i \in 2..Len(s) : s[i] = "-" /\ IsDigit(s[i - 1])
    THEN CHOOSE i \in 2..Len(s) :
            /\ s[i] = "-" /\ IsDigit(s[i - 1])
            /\ \A j \in 2..(i - 1) : ~(s[j] = "-" /\ IsDigit(s[j - 1]))
    ELSE 0

\* A range of two numbers min <= max, as written
IsNumberRange(s) ==
    /\ BoundsHyphen(s) # 0
    /\ ~StringToNumber(Take(s, BoundsHyphen(s) - 1)).nan
    /\ ~StringToNumber(Drop(s, BoundsHyphen(s))).nan
    /\ StringToNumber(Take(s, BoundsHyphen(s) - 1)).n
       <= StringToNumber(Drop(s, BoundsHyphen(s))).n

\* A number lies in the closed interval the range writes
InNumberRange(n, s) ==
    /\ StringToNumber(Take(s, BoundsHyphen(s) - 1)).n <= n
    /\ n <= StringToNumber(Drop(s, BoundsHyphen(s))).n

\* A range of two calendar dates YYYY-MM-DD-YYYY-MM-DD
IsDateRange(s) ==
    /\ Len(s) = 21 /\ s[11] = "-"
    /\ ~IsoDate(Take(s, 10)).nan /\ ~IsoDate(Drop(s, 11)).nan

\* A calendar date lies in the closed interval the range writes
InDateRange(day, s) ==
    IsoDate(Take(s, 10)).n <= day /\ day <= IsoDate(Drop(s, 11)).n

\* The rule passes exactly when the value is inside, and fails as invalid
RangeRuleIs(value, rule, column, typeConfig, inside) ==
    /\ validateRule(value, rule, column.type, typeConfig).valid = inside
    /\ ~inside => validateRule(value, rule, column.type, typeConfig).type = "invalid"

\* The claim of C15 for one cell and one range rule
RangeRuleByInterval(value, rule, column, typeConfig) ==
    /\ (/\ column.type = "number" /\ typeof(value) = "number"
        /\ IsNumberRange(rule.value.v))
       => RangeRuleIs(value, rule, column, typeConfig,
                      InNumberRange(value.v, rule.value.v))
    /\ (/\ column.type = "date" /\ typeof(value) = "string"
        /\ ~IsoDate(value.v).nan /\ IsDateRange(rule.value.v))
       => RangeRuleIs(value, rule, column, typeConfig,
                      InDateRange(IsoDate(value.v).n, rule.value.v))

\* C15: a range rule written "min-max" fails, with type invalid, exactly when
\* the cell lies outside [min, max]: numerically on a number column, for
\* negative bounds too, and by calendar date on a date column
C15_RangeClosedInterval ==
    DataReturned =>
        \A i \in 1..Len(data), c \in 1..Len(config.columns) :
            \A k \in 1..Len(config.columns[c].validationRules) :
                (/\ config.columns[c].name \in DOMAIN data[i]
                 /\ ~IsEmptyValue(data[i][config.columns[c].name])
                 /\ config.columns[c].validationRules[k].type = "range"
                 /\ config.columns[c].validationRules[k].value.t = "string")
                => RangeRuleByInterval(data[i][config.columns[c].name],
                                       config.columns[c].validationRules[k],
                                       config.columns[c], config.dataTypeConfig)

\* The message C16 expects of a failing rule: the rule's own when it has
\* one, else the text the evaluator generates
ExpectedRuleMessage(value, rule, column, typeConfig) ==
    IF rule.message # "" THEN [text |-> rule.message, values |-> <<>>]
    ELSE validateRule(value, rule, column.type, typeConfig).message

\* The rule diagnostics of a cell, the last Len(failing) of its diagnostics,
\* carry the expected messages
RuleMessagesOverride(cell, value, column, failing, typeConfig) ==
    /\ Len(cell) >= Len(failing)
    /\ \A j \in 1..Len(failing) :
          cell[Len(cell) - Len(failing) + j].message =
             ExpectedRuleMessage(value, column.validationRules[failing[j]],
                                 column, typeConfig)

\* Scenario B: a required number column age with the rule min 18 "too young"
\* and the single row {age: 15}
ScenarioB ==
    /\ config.columns = <<Column("age", TRUE, "number",
                                 <<Rule("min", Int10(18), "too young")>>, <<>>)>>
    /\ data = <<[k \in {"age"} |-> Int10(15)]>>

\* C16: the diagnostic of a failing rule carries the rule's own message when
\* that is not empty and the generated message otherwise; scenario B yields
\* exactly one diagnostic: invalid, "too young", row 2
C16_RuleMessageOverrides ==
    DataReturned =>
        /\ \A i \in 1..Len(data), c \in 1..Len(config.columns) :
              (config.columns[c].name \in DOMAIN data[i]
               /\ ~IsEmptyValue(data[i][config.columns[c].name]))
              => RuleMessagesOverride(
                     OnCell(validationResult.errors, i + 1, config.columns[c].name),
                     data[i][config.columns[c].name], config.columns[c],
                     FailingRules(data[i][config.columns[c].name], config.columns[c],
                                  config.dataTypeConfig),
                     config.dataTypeConfig)
        /\ ScenarioB
           => /\ Len(validationResult.errors) = 1
              /\ validationResult.errors[1].type = "invalid"
              /\ validationResult.errors[1].message = [text |-> "too young",
                                                       values |-> <<>>]
              /\ validationResult.errors[1].row = 2
              /\ validationResult.errors[1].column = "age"

\* Scenario B was validated and its one diagnostic says "too young"
C16_Witness ==
    /\ DataReturned
    /\ ScenarioB
    /\ Len(validationResult.errors) = 1
    /\ validationResult.errors[1].message.text = "too young"

\* The four categories of a diagnostic
Categories == {"missing", "format", "invalid", "other"}

\* How many times a diagnostic occurs in a list
Occurrences(errors, e) == Cardinality({k \in 1..Len(errors) : errors[k] = e})

\* C17: the buckets missing, format, invalid and other partition the
\* diagnostics as a multiset: a diagnostic occurs in the bucket of its type
\* as often as in the list and in no other bucket, a bucket holds nothing
\* else, and the sizes of the buckets sum to the length of the list
C17_BucketsPartition ==
    DataReturned =>
        /\ DOMAIN validationResult.errorsByType = Categories
        /\ \A k \in 1..Len(validationResult.errors), t \in Categories :
              Occurrences(validationResult.errorsByType[t], validationResult.errors[k])
              = IF validationResult.errors[k].type = t
                THEN Occurrences(validationResult.errors, validationResult.errors[k])
                ELSE 0
        /\ \A t \in Categories : \A k \in 1..Len(validationResult.errorsByType[t]) :
              Occurrences(validationResult.errors,
                          validationResult.errorsByType[t][k]) > 0
        /\ Len(validationResult.errorsByType.missing)
           + Len(validationResult.errorsByType.format)
           + Len(validationResult.errorsByType.invalid)
           + Len(validationResult.errorsByType.other)
           = Len(validationResult.errors)

\* A result with a missing and an invalid diagnostic: two buckets filled,
\* two empty
C17_Witness ==
    /\ DataReturned
    /\ Len(validationResult.errorsByType.missing) = 1
    /\ Len(validationResult.errorsByType.invalid) = 2
    /\ validationResult.errorsByType.format = <<>>
    /\ Len(validationResult.errors) = 3

\* C18: valid is true exactly when the list of diagnostics is empty
C18_ValidIffNoErrors ==
    DataReturned => (validationResult.valid <=> validationResult.errors = <<>>)

\* A result that is not valid for a single format diagnostic
C18_Witness ==
    /\ DataReturned
    /\ ~validationResult.valid
    /\ Len(validationResult.errors) = 1
    /\ validationResult.errors[1].type = "format"

-----------------------------------------------------------------------------
(* Further claims on schema drift resolution, under SpecSchema *)

\* C19: for a non-empty row set and every policy, validateSchema returns a
\* report exactly when extraColumns is not empty, and the report has one
\* detail for each extra column, in order
C19_ReportIffExtraColumns ==
    (SchemaCalled /\ Len(data) > 0)
    => /\ schemaValidationResult.errorReport # JsNull
          <=> schemaValidationResult.extraColumns # <<>>
       /\ schemaValidationResult.errorReport # JsNull
          => /\ Len(schemaValidationResult.errorReport.details)
                = Len(schemaValidationResult.extraColumns)
             /\ \A i \in 1..Len(schemaValidationResult.extraColumns) :
                   schemaValidationResult.errorReport.details[i].column
                   = schemaValidationResult.extraColumns[i]

\* Two undeclared columns under Include: the result is valid and still
\* carries a report with two details
C19_Witness ==
    /\ SchemaCalled
    /\ config.invalidColumnHandling = "include"
    /\ schemaValidationResult.valid
    /\ Len(schemaValidationResult.extraColumns) = 2
    /\ schemaValidationResult.errorReport # JsNull
    /\ Len(schemaValidationResult.errorReport.details) = 2

-----------------------------------------------------------------------------
(* Claims on the handling of invalid cells, under SpecHandling *)

\* handleInvalidData was called and returned
HandlingCalled == handledValue # Pending

\* The cell handleInvalidData was given
HandledCell == data[1][config.columns[1].name]

\* C20 as stated: flag and reject return the raw value, remove returns null,
\* and default returns the column's configured default value
C20_HandlingByPolicy ==
    HandlingCalled =>
        CASE config.columns[1].invalidHandling \in {"flag", "reject"} ->
                handledValue = HandledCell
          [] config.columns[1].invalidHandling = "remove" ->
                handledValue = JsNull
          [] config.columns[1].invalidHandling = "default" ->
                handledValue = Str(config.columns[1].defaultValue)

\* C20, amended: flag and reject return the raw value, remove returns null,
\* and default returns the column's default value when one is configured
\* and not empty, and null otherwise
C20_HandlingDefaultOrNull ==
    HandlingCalled =>
        CASE config.columns[1].invalidHandling \in {"flag", "reject"} ->
                handledValue = HandledCell
          [] config.columns[1].invalidHandling = "remove" ->
                handledValue = JsNull
          [] config.columns[1].invalidHandling = "default" ->
                handledValue = IF config.columns[1].defaultValue # <<>>
                               THEN Str(config.columns[1].defaultValue)
                               ELSE JsNull

\* A cell handled under default in a column that configures no default: the
\* cell becomes null
C20_Witness ==
    /\ HandlingCalled
    /\ config.columns[1].invalidHandling = "default"
    /\ config.columns[1].defaultValue = <<>>
    /\ HandledCell = Str(<<"a", "b", "c">>)
    /\ handledValue = JsNull

-----------------------------------------------------------------------------
(* Further claims on row and cell validation, under SpecData *)

\* C26: validateData produces no diagnostic for a cell whose key is not the
\* name of a schema column, and none for a cell of a column that is not
\* required whose value is absent, null or the empty string, whatever the
\* column's type, format and rules
C26_SkippedCells ==
    DataReturned =>
        \A i \in 1..Len(data) :
            /\ \A k \in DOMAIN data[i] :
                  ~HasColumn(config.columns, k)
                  => OnCell(validationResult.errors, i + 1, k) = <<>>
            /\ \A c \in 1..Len(config.columns) :
                  (~config.columns[c].required
                   /\ IsEmptyValue(Get(data[i], config.columns[c].name)))
                  => OnCell(validationResult.errors, i + 1,
                            config.columns[c].name) = <<>>

\* One row with an undeclared cell, an empty cell of an optional column that
\* has a rule, and a cell that is reported: the diagnostics are on that last
\* cell only
C26_Witness ==
    /\ DataReturned
    /\ Len(data) = 1
    /\ DOMAIN data[1] = {"name", "age", "extra1"}
    /\ Len(config.columns) = 2
    /\ ~config.columns[1].required
    /\ config.columns[1].validationRules # <<>>
    /\ data[1][config.columns[1].name] = Str(<<>>)
    /\ validationResult.errors # <<>>
    /\ \A k \in 1..Len(validationResult.errors) :
          validationResult.errors[k].column = config.columns[2].name

-----------------------------------------------------------------------------
(* Specification of the import workflow.  A handler is one action: it reads *)
(* the state of the render it was created in (the unprimed variables) and   *)
(* its setState calls take effect together.  The state that is only shown   *)
(* (columns, fileName, progress) is left out.                               *)

\* The panel the component renders: the first of the four that is open,
\* or the tabs
View ==
    IF showSchemaValidation /\ schemaValidationResult # JsNull THEN "schema"
    ELSE IF showHeaderValidation /\ headerValidationResult # JsNull THEN "header"
    ELSE IF showAdvancedConfig THEN "config"
    ELSE IF showValidationResults /\ validationResult # JsNull THEN "results"
    ELSE "tabs"

\* One call of the engine: the gate, the rows and the configuration handed
\* to it
Call(gate, rows, cfg) == [gate |-> gate, rows |-> rows, cfg |-> cfg]

\* The gates run since the last upload, each once, in the order of their
\* first run
RECURSIVE Logged(_, _)
Logged(log, calls) ==
    IF calls = <<>> THEN log
    ELSE Logged(IF Includes(log, Head(calls).gate) THEN log
                ELSE Append(log, Head(calls).gate),
                Tail(calls))

\* The configuration with the headers it does not declare added as default
\* columns
WithNewColumns(cfg, headers) ==
    LET newHeaders == SelectSeq(headers, LAMBDA h : ~HasColumn(cfg.columns, h))
    IN IF Len(newHeaders) > 0 \/ Len(cfg.columns) = 0
       THEN [cfg EXCEPT !.columns =
                cfg.columns \o [i \in 1..Len(newHeaders) |->
                                   DefaultColumn(newHeaders[i], FALSE)]]
       ELSE cfg

\* The cell handleImport stores: the value, or what handleInvalidData makes
\* of it when a diagnostic names the column and the same text
ImportedCell(value, column, errors) ==
    IF \E k \in 1..Len(errors) :
          /\ errors[k].column = column.name
          /\ ToStringValue(errors[k].value) = ToStringValue(value)
    THEN handleInvalidData(value, column)
    ELSE value

\* processedImportData
ProcessedImportData(rows, cfg, errors) ==
    [i \in 1..Len(rows) |->
        [name \in {cfg.columns[c].name :
                      c \in {x \in 1..Len(cfg.columns) :
                                Get(rows[i], cfg.columns[x].name) # Undefined}} |->
            ImportedCell(rows[i][name], ColumnOf(cfg.columns, name), errors)]]

\* The props of the component: requiredColumns and optionalColumns
Props ==
    {[requiredColumns |-> <<>>, optionalColumns |-> <<>>],
     [requiredColumns |-> <<"name">>, optionalColumns |-> <<"age">>]}

\* The first importerConfig, made from the props
InitialConfig(props, strict) ==
    ImporterConfig(
        [i \in 1..Len(props.requiredColumns) |->
            DefaultColumn(props.requiredColumns[i], TRUE)]
        \o [i \in 1..Len(props.optionalColumns) |->
               DefaultColumn(props.optionalColumns[i], FALSE)],
        IF strict THEN "reject" ELSE "warn",
        defaultDataTypeConfig)

\* The sheets a user uploads: none, clean, with an undeclared column and
\* without the name column
UploadedFiles ==
    {<<>>,
     <<[k \in {"name", "age"} |->
           IF k = "name" THEN Str(<<"a", "b", "c", "d">>) ELSE Int10(25)]>>,
     <<[k \in {"name", "age", "extra1"} |->
           CASE k = "name" -> Str(<<"a", "b", "c", "d">>)
             [] k = "age" -> Int10(15)
             [] OTHER -> Int10(1)]>>,
     <<[k \in {"age"} |-> Int10(25)]>>}

\* The configurations a user saves in the panel
SavedConfigs ==
    {ImporterConfig(<<Column("name", TRUE, "string", <<>>, <<>>),
                      Column("age", FALSE, "number",
                             <<Rule("min", Int10(18), "too young")>>, <<>>)>>,
                    "warn", defaultDataTypeConfig)}
    \cup {ImporterConfig(<<Column("name", FALSE, "string", <<>>, <<>>),
                           Column("age", FALSE, "number", <<>>, <<>>),
                           Column("extra1", FALSE, "number", <<>>, <<>>)>>,
                         "ignore", defaultDataTypeConfig)}

InitWorkflow ==
    /\ strictSchema \in BOOLEAN
    /\ config \in {InitialConfig(props, strictSchema) : props \in Props}
    /\ fileHeaders = <<>>
    /\ data = <<>>
    /\ columnsToRemove = <<>>
    /\ headerValidationResult = JsNull
    /\ schemaValidationResult = JsNull
    /\ updatedData = JsNull
    /\ validationResult = JsNull
    /\ legacyValidationResult = JsNull
    /\ lenientDateParse = FALSE
    /\ handledValue = Pending
    /\ originalData = <<>>
    /\ processedData = <<>>
    /\ previewData = <<>>
    /\ validationErrors = <<>>
    /\ showSchemaValidation = FALSE
    /\ showHeaderValidation = FALSE
    /\ showAdvancedConfig = FALSE
    /\ showValidationResults = FALSE
    /\ activeTab = "upload"
    /\ isLoading = FALSE
    /\ error = JsNull
    /\ timers = <<>>
    /\ handler = ""
    /\ computed = <<>>
    /\ gates = <<>>
    /\ StoreIdle

\* What no handler of the workflow touches
WorkflowFrame ==
    UNCHANGED <<columnsToRemove, updatedData, legacyValidationResult,
                lenientDateParse, handledValue, strictSchema, storeVars>>

\* The engine calls of a handler enter the history
Computed(calls) ==
    /\ computed' = calls
    /\ gates' = Logged(gates, calls)

\* handleFileData from the header validation on: the rows passed schema
\* drift resolution
FileDataAccepted(fileData, validatedData, cfg) ==
    /\ processedData' = validatedData
    /\ config' = cfg
    /\ headerValidationResult' = validateHeaders(ObjectKeys(validatedData[1]), cfg)
    /\ showHeaderValidation' = TRUE
    /\ previewData' = validatedData
    /\ computed' = <<Call("schema", fileData, config),
                     Call("headers", validatedData, cfg)>>
    /\ UNCHANGED showSchemaValidation

\* handleFileData on a sheet with rows, validateSchema having returned
FileDataLoaded(fileData, schemaResult) ==
    /\ originalData' = fileData
    /\ fileHeaders' = ObjectKeys(fileData[1])
    /\ schemaValidationResult' = schemaResult
    /\ IF ~schemaResult.valid /\ strictSchema
       THEN /\ showSchemaValidation' = TRUE
            /\ computed' = <<Call("schema", fileData, config)>>
            /\ UNCHANGED <<processedData, config, headerValidationResult,
                           showHeaderValidation, previewData>>
       ELSE IF schemaResult.valid
       THEN FileDataAccepted(fileData, fileData,
                             WithNewColumns(config, ObjectKeys(fileData[1])))
       ELSE FileDataAccepted(fileData, schemaResult.validData,
                             WithNewColumns(config,
                                            ObjectKeys(schemaResult.validData[1])))
    /\ gates' = Logged(<<>>, computed')

\* handleFileData, called by the uploader of the upload tab
HandleFileData(fileData) ==
    /\ View = "tabs" /\ activeTab = "upload"
    /\ handler' = "handleFileData"
    /\ validationErrors' = <<>>
    /\ IF Len(fileData) = 0
       THEN /\ error' = "The uploaded file contains no data"
            /\ computed' = <<>>
            /\ UNCHANGED <<originalData, fileHeaders, schemaValidationResult, gates,
                           showSchemaValidation, processedData, config,
                           headerValidationResult, showHeaderValidation,
                           previewData>>
       ELSE /\ error' = JsNull
            /\ FileDataLoaded(fileData, validateSchema(fileData, config))
    /\ UNCHANGED <<data, validationResult, showAdvancedConfig,
                   showValidationResults, activeTab, isLoading, timers>>
    /\ WorkflowFrame

\* handleSchemaValidationContinue(validData)
SchemaValidationContinue(validData) ==
    /\ showSchemaValidation' = FALSE
    /\ processedData' = validData
    /\ headerValidationResult' = validateHeaders(ObjectKeys(validData[1]), config)
    /\ showHeaderValidation' = TRUE
    /\ previewData' = validData
    /\ UNCHANGED <<data, config, fileHeaders, validationResult, originalData,
                   validationErrors, showAdvancedConfig, showValidationResults,
                   activeTab, isLoading, error, timers>>
    /\ WorkflowFrame

\* Continue of the schema panel: handleContinue hands over validData
SchemaContinue ==
    /\ View = "schema"
    /\ handler' = "handleSchemaValidationContinue"
    /\ SchemaValidationContinue(schemaValidationResult.validData)
    /\ Computed(<<Call("headers", schemaValidationResult.validData, config)>>)
    /\ UNCHANGED schemaValidationResult

\* handleRemoveColumns after removeColumns returned
RemoveColumnsWith(updated) ==
    /\ schemaValidationResult' = validateSchema(updated, config)
    /\ SchemaValidationContinue(updated)
    /\ Computed(<<Call("schema", updated, config), Call("headers", updated, config)>>)

\* Remove Selected Columns of the schema panel: handleRemoveColumns with
\* the extra columns that are ticked, at least one
HandleRemoveColumns(selected) ==
    /\ View = "schema"
    /\ ~schemaValidationResult.valid
    /\ selected # {}
    /\ selected \subseteq Range(schemaValidationResult.extraColumns)
    /\ handler' = "handleRemoveColumns"
    /\ RemoveColumnsWith(
          removeColumns(originalData,
                        SelectSeq(schemaValidationResult.extraColumns,
                                  LAMBDA c : c \in selected)))

\* A handler that only sets panel flags or the tab
OnlyShows ==
    /\ Computed(<<>>)
    /\ UNCHANGED <<data, config, fileHeaders, headerValidationResult,
                   schemaValidationResult, validationResult, originalData,
                   processedData, previewData, validationErrors, isLoading, error,
                   timers>>
    /\ WorkflowFrame

\* Cancel of the schema panel
SchemaCancel ==
    /\ View = "schema"
    /\ handler' = "onCancel"
    /\ showSchemaValidation' = FALSE
    /\ UNCHANGED <<showHeaderValidation, showAdvancedConfig, showValidationResults,
                   activeTab>>
    /\ OnlyShows

\* validateDataWithConfig after validateData returned: the result is stored
\* and, with diagnostics, the results panel is opened
ValidatedWith(result) ==
    /\ validationResult' = result
    /\ validationErrors' = result.errors
    /\ showValidationResults' =
          IF Len(result.errors) > 0 THEN TRUE ELSE showValidationResults

\* handleHeaderValidationContinue: Continue of the header panel, which is
\* disabled unless the result is valid
HandleHeaderValidationContinue ==
    /\ View = "header"
    /\ headerValidationResult.valid
    /\ handler' = "handleHeaderValidationContinue"
    /\ showHeaderValidation' = FALSE
    /\ ValidatedWith(validateData(processedData, config))
    /\ activeTab' = "preview"
    /\ Computed(<<Call("rows", processedData, config)>>)
    /\ UNCHANGED <<data, config, fileHeaders, headerValidationResult,
                   schemaValidationResult, originalData, processedData, previewData,
                   showSchemaValidation, showAdvancedConfig, isLoading, error,
                   timers>>
    /\ WorkflowFrame

\* Cancel of the header panel
HeaderCancel ==
    /\ View = "header"
    /\ handler' = "onCancel"
    /\ showHeaderValidation' = FALSE
    /\ UNCHANGED <<showSchemaValidation, showAdvancedConfig, showValidationResults,
                   activeTab>>
    /\ OnlyShows

\* Configure Import Settings and Configure Fields
OpenAdvancedConfig ==
    /\ View = "tabs" /\ activeTab \in {"upload", "preview"}
    /\ handler' = "setShowAdvancedConfig"
    /\ showAdvancedConfig' = TRUE
    /\ UNCHANGED <<showSchemaValidation, showHeaderValidation,
                   showValidationResults, activeTab>>
    /\ OnlyShows

\* Cancel of the configuration panel
ConfigCancel ==
    /\ View = "config"
    /\ handler' = "onCancel"
    /\ showAdvancedConfig' = FALSE
    /\ UNCHANGED <<showSchemaValidation, showHeaderValidation,
                   showValidationResults, activeTab>>
    /\ OnlyShows

\* handleConfigSave from the re-validation on, a file being loaded:
\* validateDataWithConfig reads importerConfig of the render, which is the
\* configuration before the save
ConfigSaveRevalidate(cfg, schemaResult) ==
    /\ schemaValidationResult' = schemaResult
    /\ IF ~schemaResult.valid /\ strictSchema
       THEN /\ showSchemaValidation' = TRUE
            /\ Computed(<<Call("schema", originalData, cfg)>>)
            /\ UNCHANGED <<processedData, validationResult, validationErrors,
                           showValidationResults>>
       ELSE /\ processedData' =
                  (IF schemaResult.valid THEN originalData
                   ELSE schemaResult.validData)
            /\ ValidatedWith(validateData(processedData', config))
            /\ Computed(<<Call("schema", originalData, cfg),
                          Call("rows", processedData', config)>>)
            /\ UNCHANGED showSchemaValidation

\* handleConfigSave(cfg): Save of the configuration panel
HandleConfigSave(cfg) ==
    /\ View = "config"
    /\ handler' = "handleConfigSave"
    /\ config' = cfg
    /\ showAdvancedConfig' = FALSE
    /\ IF Len(originalData) > 0
       THEN ConfigSaveRevalidate(cfg, validateSchema(originalData, cfg))
       ELSE /\ Computed(<<>>)
            /\ UNCHANGED <<schemaValidationResult, showSchemaValidation,
                           processedData, validationResult, validationErrors,
                           showValidationResults>>
    /\ UNCHANGED <<data, fileHeaders, headerValidationResult, originalData,
                   previewData, showHeaderValidation, activeTab, isLoading, error,
                   timers>>
    /\ WorkflowFrame

\* A handleImport that goes on whatever validateDataWithConfig returned
ImportWithUnchecked(result, calls) ==
    /\ ValidatedWith(result)
    /\ Computed(calls)
    /\ isLoading' = TRUE
    /\ timers' = Append(timers,
                        ProcessedImportData(processedData, config, validationErrors))
    /\ UNCHANGED <<data, config, fileHeaders, headerValidationResult,
                   schemaValidationResult, originalData, processedData, previewData,
                   showSchemaValidation, showHeaderValidation, showAdvancedConfig,
                   activeTab, error>>
    /\ WorkflowFrame

\* handleImport after its validateDataWithConfig returned: with a valid
\* result it starts the timer that will store the rows, made with the
\* validationErrors of the render
ImportWith(result, calls) ==
    /\ ValidatedWith(result)
    /\ Computed(calls)
    /\ IF result.valid
       THEN /\ isLoading' = TRUE
            /\ timers' = Append(timers,
                                ProcessedImportData(processedData, config,
                                                    validationErrors))
       ELSE UNCHANGED <<isLoading, timers>>
    /\ UNCHANGED <<data, config, fileHeaders, headerValidationResult,
                   schemaValidationResult, originalData, processedData, previewData,
                   showSchemaValidation, showHeaderValidation, showAdvancedConfig,
                   activeTab, error>>
    /\ WorkflowFrame

\* Validate & Import of the preview tab, disabled while an import runs:
\* validateDataWithConfig, then handleImport when it returned true
ValidateAndImport ==
    /\ View = "tabs" /\ activeTab = "preview"
    /\ ~isLoading
    /\ handler' = "handleImport"
    /\ ImportWith(validateData(processedData, config),
                  <<Call("rows", processedData, config)>>)

\* The interval of handleImport reaching 100: the rows are stored
ImportTimerDone ==
    /\ \E i \in 1..Len(timers) :
          /\ data' = timers[i]
          /\ timers' = RemoveAt(timers, i)
    /\ handler' = "setInterval"
    /\ isLoading' = FALSE
    /\ activeTab' = "data"
    /\ Computed(<<>>)
    /\ UNCHANGED <<config, fileHeaders, headerValidationResult,
                   schemaValidationResult, validationResult, originalData,
                   processedData, previewData, validationErrors,
                   showSchemaValidation, showHeaderValidation, showAdvancedConfig,
                   showValidationResults, error>>
    /\ WorkflowFrame

\* Cancel of the results panel.  Its Continue is disabled while the result
\* has diagnostics, and the panel is open with such a result only
ResultsCancel ==
    /\ View = "results"
    /\ handler' = "onCancel"
    /\ showValidationResults' = FALSE
    /\ UNCHANGED <<showSchemaValidation, showHeaderValidation, showAdvancedConfig,
                   activeTab>>
    /\ OnlyShows

\* A tab is chosen; preview and data are disabled while they have no rows
SetActiveTab(tab) ==
    /\ View = "tabs"
    /\ tab # activeTab
    /\ tab = "preview" => Len(previewData) > 0
    /\ tab = "data" => Len(data) > 0
    /\ handler' = "setActiveTab"
    /\ activeTab' = tab
    /\ UNCHANGED <<showSchemaValidation, showHeaderValidation, showAdvancedConfig,
                   showValidationResults>>
    /\ OnlyShows

\* View details of the extra-columns alert on the preview tab
ViewSchemaDetails ==
    /\ View = "tabs" /\ activeTab = "preview"
    /\ schemaValidationResult # JsNull
    /\ ~schemaValidationResult.valid
    /\ ~strictSchema
    /\ handler' = "setShowSchemaValidation"
    /\ showSchemaValidation' = TRUE
    /\ UNCHANGED <<showHeaderValidation, showAdvancedConfig, showValidationResults,
                   activeTab>>
    /\ OnlyShows

NextWorkflow ==
    \/ \E fileData \in UploadedFiles : HandleFileData(fileData)
    \/ SchemaContinue
    \/ \E selected \in SUBSET Range(KeyOrder) : HandleRemoveColumns(selected)
    \/ SchemaCancel
    \/ HandleHeaderValidationContinue
    \/ HeaderCancel
    \/ OpenAdvancedConfig
    \/ \E cfg \in SavedConfigs : HandleConfigSave(cfg)
    \/ ConfigCancel
    \/ ValidateAndImport
    \/ ImportTimerDone
    \/ ResultsCancel
    \/ \E tab \in {"upload", "preview", "data"} : SetActiveTab(tab)
    \/ ViewSchemaDetails

SpecWorkflow == InitWorkflow /\ [][NextWorkflow]_vars

-----------------------------------------------------------------------------
(* Claims on the import workflow, under SpecWorkflow *)

\* The place of a gate in the history of the upload, 0 when it has not run
Position(log, gate) ==
    IF Includes(log, gate)
    THEN CHOOSE k \in 1..Len(log) : log[k] = gate
    ELSE 0

\* The calls of a gate among the calls of the last handler
CallsOf(gateNames) == SelectSeq(computed, LAMBDA call : call.gate \in gateNames)

\* C21: for every upload the gates run in the order header reconciliation,
\* schema drift resolution, row validation: schema drift resolution has not
\* run before the header reconciliation of the upload, and row validation
\* has not run before both
C21_GatesInOrder ==
    /\ Includes(gates, "schema")
       => /\ Includes(gates, "headers")
          /\ Position(gates, "headers") < Position(gates, "schema")
    /\ Includes(gates, "rows")
       => /\ Includes(gates, "headers") /\ Includes(gates, "schema")
          /\ Position(gates, "headers") < Position(gates, "rows")
          /\ Position(gates, "schema") < Position(gates, "rows")

\* C22: whenever the import timer stores rows into the imported data set,
\* the latest row validation returned valid = true: no import takes place
\* while the latest validation has diagnostics
C22_ImportOnlyWhenValid ==
    [][handler' = "setInterval"
       => (validationResult # JsNull /\ validationResult.valid)]_vars

\* C22 as amended: an import is started only by a handler whose row
\* validation of the processed rows returned valid = true in that step, so
\* with diagnostics no import of those rows is started; the imported data
\* set changes only when the timer of a started import stores its rows
C22_ImportStartsOnlyWhenValid ==
    [][/\ Len(timers') > Len(timers)
          => /\ validationResult' = validateData(processedData, config)
             /\ validationResult'.valid
       /\ (handler' = "handleImport" /\ ~validationResult'.valid)
          => (timers' = timers /\ data' = data /\ isLoading' = isLoading)
       /\ data' # data => \E i \in 1..Len(timers) : data' = timers[i]]_vars

\* Validate & Import on rows with diagnostics, after an earlier import: no
\* import runs and the imported data set is the earlier one
C22_Witness ==
    /\ handler = "handleImport"
    /\ ~validationResult.valid
    /\ validationResult = validateData(processedData, config)
    /\ timers = <<>>
    /\ ~isLoading
    /\ data # <<>>

\* C23: while the header reconciliation result is invalid, no handler other
\* than a new upload computes row validation or starts an import
C23_HeaderGateBlocks ==
    [][(headerValidationResult # JsNull
        /\ ~headerValidationResult.valid
        /\ handler' # "handleFileData")
       => (CallsOf({"rows"})' = <<>> /\ Len(timers') <= Len(timers))]_vars

\* C24: in strict mode, under the policy Reject, rows that contain
\* undeclared columns are not handed to header reconciliation or row
\* validation and are not imported
C24_SchemaGateBlocksUnderReject ==
    [][strictSchema
       => /\ \A k \in 1..Len(CallsOf({"headers", "rows"})') :
                LET call == CallsOf({"headers", "rows"})'[k]
                IN call.cfg.invalidColumnHandling = "reject"
                   => UndeclaredKeys(call.rows, call.cfg) = {}
          /\ (config.invalidColumnHandling = "reject"
              /\ UndeclaredKeys(processedData, config) # {})
             => Len(timers') <= Len(timers)]_vars

\* C25: the schema drift result and the row validation result that a save
\* of the configuration stores are computed with the configuration saved
C25_SaveUsesSavedConfig ==
    [][handler' = "handleConfigSave"
       => \A k \in 1..Len(computed') : computed'[k].cfg = config']_vars

-----------------------------------------------------------------------------
(* The failed-submission store: its operations on the pair of submissions  *)
(* and selectedSubmission.  The timestamp of an entry is left out.         *)

StoreState(subs, selected) == [submissions |-> subs, selectedSubmission |-> selected]

\* { ...object, ...updates }
Spread(object, updates) ==
    [f \in DOMAIN object \cup DOMAIN updates |->
        IF f \in DOMAIN updates THEN updates[f] ELSE object[f]]

\* state.selectedSubmission?.id === id
SelectedIs(state, id) ==
    state.selectedSubmission # JsNull /\ state.selectedSubmission.id = id

\* addFailedSubmission(submission), generateId() having returned id
addFailedSubmission(state, submission, id) ==
    [state EXCEPT !.submissions =
        Append(@, Spread(submission, [id |-> id, retryCount |-> 0]))]

\* A removal that leaves selectedSubmission as it is
removeFailedSubmissionKeepsSelected(state, id) ==
    [state EXCEPT !.submissions = SelectSeq(@, LAMBDA sub : sub.id # id)]

\* removeFailedSubmission(id)
removeFailedSubmission(state, id) ==
    StoreState(SelectSeq(state.submissions, LAMBDA sub : sub.id # id),
               IF SelectedIs(state, id) THEN JsNull ELSE state.selectedSubmission)

\* updateFailedSubmission(id, updates)
updateFailedSubmission(state, id, updates) ==
    StoreState([k \in 1..Len(state.submissions) |->
                   IF state.submissions[k].id = id
                   THEN Spread(state.submissions[k], updates)
                   ELSE state.submissions[k]],
               IF SelectedIs(state, id)
               THEN Spread(state.selectedSubmission, updates)
               ELSE state.selectedSubmission)

\* clearAllFailedSubmissions()
clearAllFailedSubmissions(state) == StoreState(<<>>, JsNull)

\* setSelectedSubmission(submission)
setSelectedSubmission(state, submission) ==
    [state EXCEPT !.selectedSubmission = submission]

\* An increment that counts every entry
incrementRetryCountOfAll(state, id) ==
    StoreState([k \in 1..Len(state.submissions) |->
                   [state.submissions[k] EXCEPT !.retryCount = @ + 1]],
               state.selectedSubmission)

\* incrementRetryCount(id)
incrementRetryCount(state, id) ==
    StoreState([k \in 1..Len(state.submissions) |->
                   IF state.submissions[k].id = id
                   THEN [state.submissions[k] EXCEPT !.retryCount = @ + 1]
                   ELSE state.submissions[k]],
               IF SelectedIs(state, id)
               THEN [state.selectedSubmission EXCEPT !.retryCount = @ + 1]
               ELSE state.selectedSubmission)

\* The store of the state
Store == StoreState(submissions, selectedSubmission)

\* set(...): the store becomes next
SetStore(next) ==
    /\ submissions' = next.submissions
    /\ selectedSubmission' = next.selectedSubmission

IdsOf(subs) == {subs[k].id : k \in 1..Len(subs)}

\* The entry of the list with an id
EntryOf(subs, id) == subs[CHOOSE k \in 1..Len(subs) : subs[k].id = id]

-----------------------------------------------------------------------------
(* submitDataToApi *)

\* What the server does with a request: fetch rejects, or it resolves with
\* a status and a body that is JSON (null, or an object with a message
\* that may be empty) or is not
NetworkError == [fetch |-> "rejects", ok |-> FALSE, json |-> FALSE,
                 body |-> JsNull]
Response(ok, json, body) == [fetch |-> "resolves", ok |-> ok, json |-> json,
                             body |-> body]
Replies ==
    {NetworkError, Response(TRUE, FALSE, JsNull)}
    \cup {Response(ok, TRUE, body) :
             ok \in BOOLEAN, body \in {JsNull, [message |-> ""]}}
    \cup {Response(FALSE, TRUE, [message |-> "quota exceeded"])}

\* The call ends in a network error, a body that does not parse or a
\* response that is not OK
Fails(reply) == reply.fetch = "rejects" \/ ~reply.json \/ ~reply.ok

\* The submission handed to addFailedSubmission
FailedJson(payload, endpoint, message) ==
    [data |-> payload, file |-> JsNull, endpoint |-> endpoint, method |-> "POST",
     error |-> message, submissionType |-> "json", retryCount |-> 0]

Raised(message) == [kind |-> "throw", success |-> FALSE, message |-> message,
                    failures |-> <<>>]
Returned(success, message, failures) ==
    [kind |-> "return", success |-> success, message |-> message,
     failures |-> failures]

\* The try block: what it returns with the failures it tracked, or what it
\* throws
submitDataToApiTry(payload, endpoint, trackFailures, reply) ==
    IF reply.fetch = "rejects" THEN Raised("Failed to fetch")
    ELSE IF ~reply.json THEN Raised("Unexpected token in JSON")
    ELSE IF ~reply.ok
    THEN IF reply.body = JsNull
         THEN Raised("Cannot read properties of null")
         ELSE LET message == IF reply.body.message # "" THEN reply.body.message
                             ELSE "Error: ${status} ${statusText}"
              IN Returned(FALSE, message,
                          IF trackFailures
                          THEN <<FailedJson(payload, endpoint, message)>>
                          ELSE <<>>)
    ELSE Returned(TRUE, "Data submitted successfully", <<>>)

\* A submitDataToApi whose catch passes the error on
submitDataToApiNoCatch(payload, endpoint, trackFailures, reply) ==
    submitDataToApiTry(payload, endpoint, trackFailures, reply)

\* submitDataToApi(payload, endpoint, {trackFailures}), the server answering
\* with reply: the catch block turns what the try block throws into a result
submitDataToApi(payload, endpoint, trackFailures, reply) ==
    IF submitDataToApiTry(payload, endpoint, trackFailures, reply).kind = "throw"
    THEN Returned(FALSE,
                  submitDataToApiTry(payload, endpoint, trackFailures, reply).message,
                  IF trackFailures
                  THEN <<FailedJson(
                            payload, endpoint,
                            submitDataToApiTry(payload, endpoint, trackFailures,
                                               reply).message)>>
                  ELSE <<>>)
    ELSE submitDataToApiTry(payload, endpoint, trackFailures, reply)

\* The failures of a call enter the store, each under a new id
RECURSIVE Tracked(_, _, _)
Tracked(state, failures, id) ==
    IF failures = <<>> THEN state
    ELSE Tracked(addFailedSubmission(state, Head(failures), id), Tail(failures),
                 id + 1)

\* The call as history keeps it
CallRecord(result, trackFailures, reply) ==
    [kind |-> result.kind, success |-> result.success,
     trackFailures |-> trackFailures, failed |-> Fails(reply)]

-----------------------------------------------------------------------------
(* Specification of the failed-submission store: its operations called in  *)
(* any order, the selection being set to entries of the list or to null.   *)

dialogVars ==
    <<dialogSelection, showEditDialog, retrying, submitting, submitResult,
      returned>>

\* The importer stands idle while the store is at work
ImporterIdle ==
    /\ config = InitialConfig([requiredColumns |-> <<>>, optionalColumns |-> <<>>],
                              FALSE)
    /\ fileHeaders = <<>>
    /\ data = <<>>
    /\ columnsToRemove = <<>>
    /\ headerValidationResult = JsNull
    /\ schemaValidationResult = JsNull
    /\ updatedData = JsNull
    /\ validationResult = JsNull
    /\ legacyValidationResult = JsNull
    /\ lenientDateParse = FALSE
    /\ handledValue = Pending
    /\ WorkflowIdle

Payloads == {"rows"}
Endpoints == {"/api/import"}
Messages == {"Failed to fetch", "quota exceeded"}

\* The updates of updateFailedSubmission, id among the ids given out
Updates ==
    {[retryCount |-> 0], [error |-> "edited"]}
    \cup {[id |-> id] : id \in 0..MaxSubmissions}

InitStore ==
    /\ ImporterIdle
    /\ StoreIdle

StoreFrame == UNCHANGED <<engineVars, workflowVars, dialogVars>>

AddFailedSubmission(submission) ==
    /\ nextId <= MaxSubmissions
    /\ Len(submissions) < MaxSubmissions
    /\ SetStore(addFailedSubmission(Store, submission, nextId))
    /\ nextId' = nextId + 1
    /\ StoreFrame

RemoveFailedSubmission(id) ==
    /\ SetStore(removeFailedSubmission(Store, id))
    /\ UNCHANGED nextId
    /\ StoreFrame

UpdateFailedSubmission(id, updates) ==
    /\ SetStore(updateFailedSubmission(Store, id, updates))
    /\ UNCHANGED nextId
    /\ StoreFrame

ClearAllFailedSubmissions ==
    /\ SetStore(clearAllFailedSubmissions(Store))
    /\ UNCHANGED nextId
    /\ StoreFrame

SetSelectedSubmission(submission) ==
    /\ SetStore(setSelectedSubmission(Store, submission))
    /\ UNCHANGED nextId
    /\ StoreFrame

IncrementRetryCount(id) ==
    /\ \A k \in 1..Len(submissions) : submissions[k].retryCount < MaxRetries
    /\ SetStore(incrementRetryCount(Store, id))
    /\ UNCHANGED nextId
    /\ StoreFrame

\* The page is loaded again: persist keeps the submissions only
Rehydrate ==
    /\ SetStore(StoreState(submissions, JsNull))
    /\ UNCHANGED nextId
    /\ StoreFrame

NextStore ==
    \/ \E payload \in Payloads, endpoint \in Endpoints, message \in Messages :
          AddFailedSubmission(FailedJson(payload, endpoint, message))
    \/ \E id \in 0..MaxSubmissions : RemoveFailedSubmission(id)
    \/ \E id \in 0..MaxSubmissions, updates \in Updates :
          UpdateFailedSubmission(id, updates)
    \/ ClearAllFailedSubmissions
    \/ \E submission \in Range(submissions) \cup {JsNull} :
          SetSelectedSubmission(submission)
    \/ \E id \in 0..MaxSubmissions : IncrementRetryCount(id)
    \/ Rehydrate

SpecStore == InitStore /\ [][NextStore]_vars

-----------------------------------------------------------------------------
(* Claims on the store, under SpecStore *)

\* C30: the selected submission is null or it is an entry of the list, the
\* same in its id and in every field, retryCount included; it is never an
\* entry that has been removed.
C30_SelectedIsListEntry ==
    \/ selectedSubmission = JsNull
    \/ \E k \in 1..Len(submissions) :
          /\ submissions[k].id = selectedSubmission.id
          /\ submissions[k] = selectedSubmission

\* An entry is selected after it was retried and another one was removed
C30_Witness ==
    /\ selectedSubmission # JsNull
    /\ selectedSubmission.retryCount > 0
    /\ selectedSubmission.error = "edited"
    /\ Len(submissions) = 1
    /\ nextId > 1

-----------------------------------------------------------------------------
(* Specification of the submissions: the submission dialog sends rows with *)
(* submitDataToApi, the failed-submissions dialog shows what failed and    *)
(* retries, edits or deletes it.  One request of the submission dialog and *)
(* one retry are in flight at a time; file submissions are left out.       *)

InitSubmissions ==
    /\ ImporterIdle
    /\ StoreIdle

SubmissionsFrame == UNCHANGED <<engineVars, workflowVars>>

\* What setSubmitResult and setRetryResult keep of a result
Shown(result) == [success |-> result.success, message |-> result.message]

\* The dialog that sent the request in flight is closed
Unmounted(request) ==
    IF request = JsNull THEN JsNull ELSE [request EXCEPT !.mounted = FALSE]

\* handleSubmit up to its await: the Send button of the submission dialog,
\* which the edit dialog opens on the rows of the selected submission
HandleSubmit(payload, endpoint) ==
    /\ submitting = JsNull
    /\ nextId < MaxSubmissions
    /\ showEditDialog => payload = dialogSelection.data
    /\ submitting' = [data |-> payload, endpoint |-> endpoint, mounted |-> TRUE]
    /\ submitResult' = JsNull
    /\ UNCHANGED <<submissions, selectedSubmission, dialogSelection,
                   showEditDialog, retrying, returned, nextId>>
    /\ SubmissionsFrame

\* submitDataToApi has ended with result
SubmitReturnsWith(result, reply) ==
    /\ SetStore(Tracked(Store, result.failures, nextId))
    /\ nextId' = nextId + Len(result.failures)
    /\ returned' = CallRecord(result, TRUE, reply)
    /\ submitResult' = IF submitting.mounted /\ result.kind = "return"
                       THEN Shown(result) ELSE submitResult
    /\ submitting' = JsNull
    /\ UNCHANGED <<dialogSelection, showEditDialog, retrying>>
    /\ SubmissionsFrame

\* handleSubmit after its await; trackFailures is left to its default
SubmitReturns(reply) ==
    /\ submitting # JsNull
    /\ SubmitReturnsWith(
           submitDataToApi(submitting.data, submitting.endpoint, TRUE, reply),
           reply)

\* handleViewDetails(submission)
HandleViewDetails(submission) ==
    /\ ~showEditDialog
    /\ dialogSelection' = submission
    /\ UNCHANGED <<submissions, selectedSubmission, showEditDialog, retrying,
                   submitting, submitResult, returned, nextId>>
    /\ SubmissionsFrame

\* handleRetry(selectedSubmission) up to its await
HandleRetry ==
    /\ ~showEditDialog
    /\ dialogSelection # JsNull
    /\ retrying = JsNull
    /\ dialogSelection.submissionType = "json"
    /\ \A k \in 1..Len(submissions) : submissions[k].retryCount < MaxRetries
    /\ retrying' = dialogSelection
    /\ UNCHANGED <<submissions, selectedSubmission, dialogSelection,
                   showEditDialog, submitting, submitResult, returned, nextId>>
    /\ SubmissionsFrame

\* The retried request has ended with result
RetryReturnsWith(result, reply) ==
    /\ SetStore(IF result.kind = "return" /\ result.success
                THEN removeFailedSubmission(
                         Tracked(Store, result.failures, nextId), retrying.id)
                ELSE incrementRetryCount(
                         Tracked(Store, result.failures, nextId), retrying.id))
    /\ nextId' = nextId + Len(result.failures)
    /\ returned' = CallRecord(result, FALSE, reply)
    /\ retrying' = JsNull
    /\ UNCHANGED <<dialogSelection, showEditDialog, submitting, submitResult>>
    /\ SubmissionsFrame

\* handleRetry after its await, with trackFailures: false
RetryReturns(reply) ==
    /\ retrying # JsNull
    /\ RetryReturnsWith(
           submitDataToApi(retrying.data, retrying.endpoint, FALSE, reply),
           reply)

\* handleEdit(selectedSubmission): the edit dialog is a submission dialog
\* newly mounted
HandleEdit ==
    /\ ~showEditDialog
    /\ dialogSelection # JsNull
    /\ retrying = JsNull
    /\ showEditDialog' = TRUE
    /\ submitResult' = JsNull
    /\ submitting' = Unmounted(submitting)
    /\ UNCHANGED <<submissions, selectedSubmission, dialogSelection, retrying,
                   returned, nextId>>
    /\ SubmissionsFrame

\* onClose of the edit dialog, by its Close button or by dismissing it
EditDialogClose ==
    /\ showEditDialog
    /\ showEditDialog' = FALSE
    /\ SetStore(removeFailedSubmission(Store, dialogSelection.id))
    /\ submitting' = Unmounted(submitting)
    /\ UNCHANGED <<dialogSelection, retrying, submitResult, returned, nextId>>
    /\ SubmissionsFrame

\* handleDelete(id)
HandleDelete(id) ==
    /\ ~showEditDialog
    /\ SetStore(removeFailedSubmission(Store, id))
    /\ dialogSelection' = IF dialogSelection # JsNull /\ dialogSelection.id = id
                          THEN JsNull ELSE dialogSelection
    /\ UNCHANGED <<showEditDialog, retrying, submitting, submitResult, returned,
                   nextId>>
    /\ SubmissionsFrame

\* handleClearAll
HandleClearAll ==
    /\ ~showEditDialog
    /\ submissions # <<>>
    /\ SetStore(clearAllFailedSubmissions(Store))
    /\ dialogSelection' = JsNull
    /\ UNCHANGED <<showEditDialog, retrying, submitting, submitResult, returned,
                   nextId>>
    /\ SubmissionsFrame

\* The ids a Delete button can pass
Deletable ==
    IdsOf(submissions)
    \cup (IF dialogSelection = JsNull THEN {} ELSE {dialogSelection.id})

NextSubmissions ==
    \/ \E payload \in Payloads, endpoint \in Endpoints :
          HandleSubmit(payload, endpoint)
    \/ \E reply \in Replies : SubmitReturns(reply)
    \/ \E submission \in Range(submissions) : HandleViewDetails(submission)
    \/ HandleRetry
    \/ \E reply \in Replies : RetryReturns(reply)
    \/ HandleEdit
    \/ EditDialogClose
    \/ \E id \in Deletable : HandleDelete(id)
    \/ HandleClearAll

SpecSubmissions == InitSubmissions /\ [][NextSubmissions]_vars

-----------------------------------------------------------------------------
(* Claims on the submissions, under SpecSubmissions *)

\* The entries of after that follow the entries of before
AppendedTo(before, after) ==
    IF Len(after) >= Len(before) /\ SubSeq(after, 1, Len(before)) = before
    THEN SubSeq(after, Len(before) + 1, Len(after))
    ELSE <<"not an extension">>

\* C27: an entry opened with Edit & Retry leaves the list only if it was
\* resubmitted with success; closing the edit dialog without a submission
\* or after a failed one keeps the entry.
C27_RemovedOnlyAfterSuccess ==
    [][(/\ showEditDialog
        /\ dialogSelection.id \in IdsOf(submissions)
        /\ dialogSelection.id \notin IdsOf(submissions'))
       => (submitResult # JsNull /\ submitResult.success)]_vars

\* C28: a retry adds no entry; one that succeeds removes the entry retried
\* and nothing else, one that fails keeps the entries and adds 1 to the
\* retryCount of the entry retried and of no other; a retryCount starts at 0
\* and never decreases.
C28_RetryCounts ==
    [][/\ (retrying # JsNull /\ retrying' = JsNull)
          => /\ IdsOf(submissions') \subseteq IdsOf(submissions)
             /\ Len(submissions') <= Len(submissions)
             /\ returned'.success
                => submissions'
                   = SelectSeq(submissions, LAMBDA sub : sub.id # retrying.id)
             /\ ~returned'.success
                => /\ Len(submissions') = Len(submissions)
                   /\ \A k \in 1..Len(submissions) :
                         submissions'[k]
                         = [submissions[k] EXCEPT
                               !.retryCount =
                                   IF submissions[k].id = retrying.id
                                   THEN @ + 1 ELSE @]
       /\ \A k \in 1..Len(submissions') :
             IF submissions'[k].id \in IdsOf(submissions)
             THEN submissions'[k].retryCount
                  >= EntryOf(submissions, submissions'[k].id).retryCount
             ELSE submissions'[k].retryCount = 0]_vars

\* A retry has succeeded and removed its entry after retries that failed;
\* the other entry has been retried without success as well
C28_Witness ==
    /\ returned # JsNull
    /\ ~returned.trackFailures
    /\ returned.success
    /\ dialogSelection # JsNull
    /\ dialogSelection.id \notin IdsOf(submissions)
    /\ dialogSelection.retryCount > 0
    /\ Len(submissions) = 1
    /\ submissions[1].retryCount > 0

\* C29: submitDataToApi never raises; with failure tracking, a call that
\* ends in a response that is not OK or in a network or parse error returns
\* success = false and appends one entry with retryCount 0, a call that
\* succeeds returns success = true and appends nothing; without tracking no
\* call appends an entry.
C29_TracksOnce ==
    [][/\ returned' # JsNull => returned'.kind = "return"
       /\ (submitting # JsNull /\ submitting' = JsNull)
          => /\ returned'.trackFailures
             /\ returned'.success = ~returned'.failed
             /\ returned'.failed
                => /\ Len(AppendedTo(submissions, submissions')) = 1
                   /\ AppendedTo(submissions, submissions')[1].retryCount = 0
                   /\ AppendedTo(submissions, submissions')[1].data
                      = submitting.data
             /\ ~returned'.failed => submissions' = submissions
       /\ (retrying # JsNull /\ retrying' = JsNull)
          => /\ ~returned'.trackFailures
             /\ returned'.success = ~returned'.failed
             /\ IdsOf(submissions') \subseteq IdsOf(submissions)]_vars

\* A tracked call has failed on a response that is not OK and whose body is
\* null, next to an entry of an earlier failure
C29_Witness ==
    /\ returned # JsNull
    /\ returned.trackFailures
    /\ returned.failed
    /\ ~returned.success
    /\ Len(submissions) = 2
    /\ submissions[2].error = "Cannot read properties of null"
    /\ submissions[2].retryCount = 0
====
